---- MODULE Spec2Model ----
(***************************************************************************)
(* Q2Client (src/unnamed/part_002): a Quake 2 protocol client over UDP.    *)
(*                                                                         *)
(* Bytes are integers 0..255.  Text is a sequence of character codes (the  *)
(* latin-1 decoding of bytes is the identity on codes), so a JavaScript    *)
(* string "ab" is <<97, 98>>.  The JavaScript string methods the client    *)
(* uses (trim, split, startsWith, includes, the regular expressions) are   *)
(* operators on such sequences.                                            *)
(***************************************************************************)
EXTENDS Integers, Sequences, FiniteSets, TLC

(***************************************************************************)
(* Protocol constants                                                      *)
(***************************************************************************)
VERSION_DEFAULT == 34
VERSION_R1Q2 == 35
VERSION_Q2PRO == 36
VERSION_AQTION == 38

Q2PRO_CURRENT == 1024
AQTION_CURRENT == 3015
R1Q2_CURRENT == 1905

SVC_MUZZLEFLASH == 1
SVC_MUZZLEFLASH2 == 2
SVC_TEMP_ENTITY == 3
SVC_LAYOUT == 4
SVC_INVENTORY == 5
SVC_NOP == 6
SVC_DISCONNECT == 7
SVC_RECONNECT == 8
SVC_SOUND == 9
SVC_PRINT == 10
SVC_STUFFTEXT == 11
SVC_SERVERDATA == 12
SVC_CONFIGSTRING == 13
SVC_SPAWNBASELINE == 14
SVC_CENTERPRINT == 15
SVC_DOWNLOAD == 16
SVC_PLAYERINFO == 17
SVC_PACKETENTITIES == 18
SVC_DELTAPACKETENTITIES == 19
SVC_FRAME == 20
SVC_ZPACKET == 21
SVC_GAMESTATE == 23
SVC_SETTING == 24
SVC_CONFIGSTRINGSTREAM == 25
SVC_BASELINESTREAM == 26
SVC_EXTEND == 30
SVC_CVARSYNC == 32

SVCMD_MASK == 31

CLC_NOP == 1
CLC_STRINGCMD == 4

\* Integers of the model are below 2^31, so a 32-bit word is handled through
\* its bytes: REL_BIT (0x80000000) and FRG_BIT (0x40000000) are the bits 0x80
\* and 0x40 of the most significant byte, and NEW_MASK (FRG_BIT - 1) keeps the
\* low 6 bits of that byte.
REL_BIT == 128
FRG_BIT == 64
NEW_MASK == 63

\* Entity delta bits (1 << k)
U_ORIGIN1 == 1
U_ORIGIN2 == 2
U_ANGLE2 == 4
U_ANGLE3 == 8
U_FRAME8 == 16
U_EVENT == 32
U_REMOVE == 64
U_MOREBITS1 == 128
U_NUMBER16 == 256
U_ORIGIN3 == 512
U_ANGLE1 == 1024
U_MODEL == 2048
U_RENDERFX8 == 4096
U_EFFECTS8 == 16384
U_MOREBITS2 == 32768
U_SKIN8 == 65536
U_FRAME16 == 131072
U_RENDERFX16 == 262144
U_EFFECTS16 == 524288
U_MODEL2 == 1048576
U_MODEL3 == 2097152
U_MODEL4 == 4194304
U_MOREBITS3 == 8388608
U_OLDORIGIN == 16777216
U_SKIN16 == 33554432
U_SOUND == 67108864
U_SOLID == 134217728

\* Player state flags (1 << k)
PS_M_TYPE == 1
PS_M_ORIGIN == 2
PS_M_VELOCITY == 4
PS_M_TIME == 8
PS_M_FLAGS == 16
PS_M_GRAVITY == 32
PS_M_DELTA_ANGLES == 64
PS_VIEWOFFSET == 128
PS_VIEWANGLES == 256
PS_KICKANGLES == 512
PS_BLEND == 1024
PS_FOV == 2048
PS_WEAPONINDEX == 4096
PS_WEAPONFRAME == 8192
PS_RDFLAGS == 16384

MAX_EDICTS == 1024

(***************************************************************************)
(* JavaScript string operations on sequences of character codes            *)
(***************************************************************************)
\* White space as String.prototype.trim, parseInt and the regular expression \s
\* see it: TAB LF VT FF CR SPACE NBSP, and beyond latin-1 U+1680, U+2000 to
\* U+200A, U+2028, U+2029, U+202F, U+205F, U+3000 and U+FEFF.
IsSpace(c) ==
    \/ c \in {9, 10, 11, 12, 13, 32, 160, 5760, 8232, 8233, 8239, 8287, 12288, 65279}
    \/ c \in 8192..8202

\* The regular expression \d.
IsDigit(c) == c \in 48..57

RECURSIVE trimStart(_)
trimStart(s) == IF s # <<>> /\ IsSpace(Head(s)) THEN trimStart(Tail(s)) ELSE s

RECURSIVE trimEnd(_)
trimEnd(s) ==
    IF s # <<>> /\ IsSpace(s[Len(s)]) THEN trimEnd(SubSeq(s, 1, Len(s) - 1)) ELSE s

trim(s) == trimEnd(trimStart(s))

startsWith(s, p) == Len(s) >= Len(p) /\ SubSeq(s, 1, Len(p)) = p

\* s.startsWith(p) from position i (1-based)
MatchAt(s, p, i) == i >= 1 /\ i + Len(p) - 1 <= Len(s) /\ SubSeq(s, i, i + Len(p) - 1) = p

includes(s, p) == \E i \in 1..(Len(s) + 1) : MatchAt(s, p, i)

\* s.substring(n) with n a 0-based index
substring(s, n) == IF n >= Len(s) THEN <<>> ELSE SubSeq(s, n + 1, Len(s))

\* s.split(sep) for a one-character separator: the pieces between separators,
\* empty pieces included; the empty string gives one empty piece.
RECURSIVE SplitFrom(_, _, _)
SplitFrom(s, sep, cur) ==
    IF s = <<>> THEN <<cur>>
    ELSE IF Head(s) = sep THEN <<cur>> \o SplitFrom(Tail(s), sep, <<>>)
    ELSE SplitFrom(Tail(s), sep, Append(cur, Head(s)))

split(s, sep) == SplitFrom(s, sep, <<>>)

\* Array.prototype.join
RECURSIVE join(_, _)
join(parts, sep) ==
    IF parts = <<>> THEN <<>>
    ELSE IF Len(parts) = 1 THEN parts[1]
    ELSE parts[1] \o sep \o join(Tail(parts), sep)

\* obj[key] = value on an object literal {} for a string value: the key
\* "__proto__" reaches the prototype setter, which ignores a string and
\* sets no own property
Lit___proto__ == <<95, 95, 112, 114, 111, 116, 111, 95, 95>>                    \* "__proto__"

SetProperty(obj, key, value) == IF key = Lit___proto__ THEN obj ELSE (key :> value) @@ obj

\* The longest prefix of s made of characters satisfying the class (0 = space,
\* 1 = digit), as a greedy \s* or \d* takes it.
RECURSIVE TakeSpaces(_)
TakeSpaces(s) == IF s # <<>> /\ IsSpace(Head(s)) THEN <<Head(s)>> \o TakeSpaces(Tail(s)) ELSE <<>>

RECURSIVE TakeDigits(_)
TakeDigits(s) == IF s # <<>> /\ IsDigit(Head(s)) THEN <<Head(s)>> \o TakeDigits(Tail(s)) ELSE <<>>

\* The value of a string of decimal digits (parseInt of a \d+ capture).
RECURSIVE DigitsValue(_)
DigitsValue(ds) ==
    IF ds = <<>> THEN 0 ELSE DigitsValue(SubSeq(ds, 1, Len(ds) - 1)) * 10 + (ds[Len(ds)] - 48)

\* Number-to-string conversion of a template literal `${n}` for an integer n.
RECURSIVE NatToString(_)
NatToString(n) == IF n < 10 THEN <<48 + n>> ELSE NatToString(n \div 10) \o <<48 + (n % 10)>>

NumberToString(n) == IF n < 0 THEN <<45>> \o NatToString(0 - n) ELSE NatToString(n)

(***************************************************************************)
(* Buffer reads                                                            *)
(***************************************************************************)
\* buffer[idx] with idx a 0-based index inside the buffer
ByteAt(buffer, idx) == buffer[idx + 1]

\* buffer.slice(from, to): 0-based, to exclusive, both clamped to the length
slice(buffer, from, to) ==
    LET e == IF to > Len(buffer) THEN Len(buffer) ELSE to
    IN IF from >= e THEN <<>> ELSE SubSeq(buffer, from + 1, e)

\* buffer.toString() and buffer.toString("utf8"): the bytes decoded as UTF-8
\* into UTF-16 code units.  A lead byte says how many continuation bytes
\* follow and which values the first of them may have; a byte that cannot
\* start a character, and a character that is cut short (by a byte that does
\* not continue it, or by the end of the buffer), give U+FFFD each, and the
\* byte that cut it short is read again as the start of the next character.
REPLACEMENT_CHARACTER == 65533

\* Continuation bytes after the lead byte c; 0 for a byte that is no lead byte
Utf8Needed(c) ==
    IF c \in 194..223 THEN 1 ELSE IF c \in 224..239 THEN 2 ELSE IF c \in 240..244 THEN 3 ELSE 0

\* The range of the first continuation byte after the lead byte c: overlong
\* forms, surrogates and code points above U+10FFFF are cut out here
Utf8Lower(c) == IF c = 224 THEN 160 ELSE IF c = 240 THEN 144 ELSE 128
Utf8Upper(c) == IF c = 237 THEN 159 ELSE IF c = 244 THEN 143 ELSE 191

\* How many of the `needed` continuation bytes of the lead byte at i (1-based) are there
RECURSIVE Utf8Continued(_, _, _, _)
Utf8Continued(buffer, i, needed, seen) ==
    IF seen = needed \/ i + seen + 1 > Len(buffer) THEN seen
    ELSE LET b == buffer[i + seen + 1]
             lower == IF seen = 0 THEN Utf8Lower(buffer[i]) ELSE 128
             upper == IF seen = 0 THEN Utf8Upper(buffer[i]) ELSE 191
         IN IF b \in lower..upper THEN Utf8Continued(buffer, i, needed, seen + 1) ELSE seen

\* The code point of the complete character at i
Utf8CodePoint(buffer, i, needed) ==
    IF needed = 1 THEN (buffer[i] - 192) * 64 + (buffer[i + 1] - 128)
    ELSE IF needed = 2
    THEN ((buffer[i] - 224) * 64 + (buffer[i + 1] - 128)) * 64 + (buffer[i + 2] - 128)
    ELSE (((buffer[i] - 240) * 64 + (buffer[i + 1] - 128)) * 64 + (buffer[i + 2] - 128)) * 64
             + (buffer[i + 3] - 128)

\* A code point as UTF-16: a surrogate pair above U+FFFF
Utf16Units(codePoint) ==
    IF codePoint < 65536 THEN <<codePoint>>
    ELSE <<55296 + ((codePoint - 65536) \div 1024), 56320 + ((codePoint - 65536) % 1024)>>

RECURSIVE Utf8DecodeFrom(_, _)
Utf8DecodeFrom(buffer, i) ==
    IF i > Len(buffer) THEN <<>>
    ELSE IF buffer[i] < 128 THEN <<buffer[i]>> \o Utf8DecodeFrom(buffer, i + 1)
    ELSE IF Utf8Needed(buffer[i]) = 0
    THEN <<REPLACEMENT_CHARACTER>> \o Utf8DecodeFrom(buffer, i + 1)
    ELSE IF Utf8Continued(buffer, i, Utf8Needed(buffer[i]), 0) = Utf8Needed(buffer[i])
    THEN Utf16Units(Utf8CodePoint(buffer, i, Utf8Needed(buffer[i])))
             \o Utf8DecodeFrom(buffer, i + Utf8Needed(buffer[i]) + 1)
    ELSE <<REPLACEMENT_CHARACTER>>
             \o Utf8DecodeFrom(buffer, i + Utf8Continued(buffer, i, Utf8Needed(buffer[i]), 0) + 1)

toStringUtf8(buffer) == Utf8DecodeFrom(buffer, 1)

readUInt16LE(buffer, idx) == ByteAt(buffer, idx) + 256 * ByteAt(buffer, idx + 1)

readInt16LE(buffer, idx) ==
    LET u == readUInt16LE(buffer, idx) IN IF u >= 32768 THEN u - 65536 ELSE u

\* The low 24 bits of the 32-bit little-endian word at idx
Low24(buffer, idx) ==
    ByteAt(buffer, idx) + 256 * ByteAt(buffer, idx + 1) + 65536 * ByteAt(buffer, idx + 2)

readInt32LE(buffer, idx) ==
    LET hi == ByteAt(buffer, idx + 3)
    IN IF hi >= 128
       THEN Low24(buffer, idx) + 16777216 * (hi - 128) - 2147483647 - 1
       ELSE Low24(buffer, idx) + 16777216 * hi

\* The index of the first NUL at or after idx, or the buffer length.
RECURSIVE CStringEnd(_, _)
CStringEnd(buffer, end) ==
    IF end < Len(buffer) /\ ByteAt(buffer, end) # 0 THEN CStringEnd(buffer, end + 1) ELSE end

readCString(buffer, startIndex) ==
    LET end == CStringEnd(buffer, startIndex)
    IN [text |-> slice(buffer, startIndex, end), nextIndex |-> end + 1]

readInt16(buffer, idx) ==
    IF idx + 2 > Len(buffer) THEN [value |-> 0, nextIndex |-> Len(buffer)]
    ELSE [value |-> readInt16LE(buffer, idx), nextIndex |-> idx + 2]

\* Colour characters (high bit set) lose the high bit; printable characters
\* are kept, LF and CR become LF, everything else is removed; then trim.
RECURSIVE CleanChars(_)
CleanChars(str) ==
    IF str = <<>> THEN <<>>
    ELSE LET c0 == Head(str)
             c == IF c0 >= 128 THEN c0 - 128 ELSE c0
         IN (IF c >= 32 /\ c < 127 THEN <<c>>
             ELSE IF c = 10 \/ c = 13 THEN <<10>>
             ELSE <<>>) \o CleanChars(Tail(str))

cleanQuakeString(str) == trim(CleanChars(str))

(***************************************************************************)
(* Game-message decoder                                                    *)
(*                                                                         *)
(* The parse state st carries the messages decoded so far and the two      *)
(* client fields the decoder itself assigns (serverProtocol and            *)
(* serverProtocolMinor on SERVERDATA, lastFrameNum and the entity tracker  *)
(* on SPAWNBASELINE and FRAME).  ZPACKET is not decoded by this model: no  *)
(* payload of the model carries it, and the decoder stops there.           *)
(***************************************************************************)
Push(st, msg) == [st EXCEPT !.messages = Append(@, msg)]

\* case SVC.SERVERDATA (the caller has checked idx + 9 <= length)
ParseServerData(data, idx0, st) ==
    LET proto == readInt32LE(data, idx0)
        srvCount == readInt32LE(data, idx0 + 4)
        attractloop == ByteAt(data, idx0 + 8)
        gameDir == readCString(data, idx0 + 9)
        clientNum == readInt16(data, gameDir.nextIndex)
        mapName == readCString(data, clientNum.nextIndex)
        idx == mapName.nextIndex
        r1q2 == proto = VERSION_R1Q2 /\ idx + 5 <= Len(data)
        q2pro == proto = VERSION_Q2PRO /\ idx + 3 <= Len(data)
        aqtion == proto = VERSION_AQTION /\ idx + 6 <= Len(data)
        minor == IF r1q2 THEN readUInt16LE(data, idx + 1)
                 ELSE IF q2pro \/ aqtion THEN readUInt16LE(data, idx)
                 ELSE st.serverProtocolMinor
        next == IF r1q2 THEN idx + 5
                ELSE IF q2pro THEN
                    (IF minor >= 1024
                     THEN (IF idx + 3 + 2 <= Len(data) THEN idx + 5 ELSE idx + 3)
                     ELSE (IF idx + 3 + 3 <= Len(data) THEN idx + 6 ELSE idx + 3))
                ELSE IF aqtion THEN idx + 6
                ELSE idx
    IN [idx |-> next,
        st |-> Push([st EXCEPT !.serverProtocol = proto, !.serverProtocolMinor = minor],
                    [type |-> "serverdata", protocol |-> proto, serverCount |-> srvCount,
                     attractloop |-> attractloop, gameDir |-> gameDir.text,
                     clientNum |-> clientNum.value,
                     mapName |-> cleanQuakeString(mapName.text)])]

\* case SVC.SOUND: the index after the flag-driven fields
SkipSound(data, idx0) ==
    LET flags == ByteAt(data, idx0)
        Bit(b) == (flags \div b) % 2 = 1
    IN idx0 + 1 + (IF Bit(32) THEN 2 ELSE 1) + (IF Bit(1) THEN 1 ELSE 0)
            + (IF Bit(2) THEN 1 ELSE 0) + (IF Bit(16) THEN 1 ELSE 0)
            + (IF Bit(8) THEN 2 ELSE 0) + (IF Bit(4) THEN 6 ELSE 0)

\* case SVC.TEMP_ENTITY: the index after the type byte and its arguments
SkipTempEntity(data, idx0) ==
    LET teType == ByteAt(data, idx0)
    IN idx0 + 1 + (IF teType >= 20 /\ teType <= 29 THEN 12 ELSE 6)

\* case SVC.GAMESTATE: the configstring table, up to CS_END or an index >= 2080
RECURSIVE ParseGameState(_, _, _)
ParseGameState(data, idx, st) ==
    IF idx + 2 <= Len(data)
    THEN LET csIndex == readUInt16LE(data, idx)
             str == readCString(data, idx + 2)
             cleanText == cleanQuakeString(str.text)
         IN IF csIndex = 32767 \/ csIndex >= 2080 THEN st
            ELSE ParseGameState(data, str.nextIndex,
                    IF cleanText # <<>>
                    THEN Push(st, [type |-> "configstring", index |-> csIndex, text |-> cleanText])
                    ELSE st)
    ELSE st

(***************************************************************************)
(* Entity tracker and entity deltas                                        *)
(*                                                                         *)
(* The delta bits are a 32-bit word; it is kept as its four bytes, least   *)
(* significant first, and a U_* mask is tested on the byte it falls in.    *)
(* A coordinate raw * 0.125 is the fraction raw / 8 and an angle           *)
(* raw * 360 / 256 the fraction raw * 360 / 256.  The tables baselines and *)
(* entities are functions from the entity numbers written so far; every    *)
(* other slot holds the empty entity.                                      *)
(***************************************************************************)
Eighths(raw) == [num |-> raw, den |-> 8]
Angle(raw) == [num |-> raw * 360, den |-> 256]

createEmptyEntity ==
    [number |-> 0, modelindex |-> 0, modelindex2 |-> 0, modelindex3 |-> 0,
     modelindex4 |-> 0, frame |-> 0, skinnum |-> 0, effects |-> 0, renderfx |-> 0,
     origin |-> [x |-> Eighths(0), y |-> Eighths(0), z |-> Eighths(0)],
     angles |-> [pitch |-> Angle(0), yaw |-> Angle(0), roll |-> Angle(0)],
     old_origin |-> [x |-> Eighths(0), y |-> Eighths(0), z |-> Eighths(0)],
     sound |-> 0, event |-> 0, solid |-> 0, active |-> FALSE,
     removed |-> FALSE]                 \* FALSE: the object has no property "removed"

Frac(n, d) == [num |-> n, den |-> d]

createEmptyPlayerState ==
    [pmove |-> [pm_type |-> 0,
                origin |-> [x |-> Eighths(0), y |-> Eighths(0), z |-> Eighths(0)],
                velocity |-> [x |-> Eighths(0), y |-> Eighths(0), z |-> Eighths(0)],
                pm_flags |-> 0, pm_time |-> 0, gravity |-> 0,
                delta_angles |-> [pitch |-> Frac(0, 65536), yaw |-> Frac(0, 65536),
                                  roll |-> Frac(0, 65536)]],
     viewoffset |-> [x |-> Frac(0, 4), y |-> Frac(0, 4), z |-> Frac(0, 4)],
     viewangles |-> [pitch |-> Frac(0, 65536), yaw |-> Frac(0, 65536), roll |-> Frac(0, 65536)],
     kick_angles |-> [pitch |-> Frac(0, 4), yaw |-> Frac(0, 4), roll |-> Frac(0, 4)],
     gunindex |-> 0, gunframe |-> 0,
     blend |-> <<Frac(0, 255), Frac(0, 255), Frac(0, 255), Frac(0, 255)>>,
     fov |-> 90, rdflags |-> 0]

\* new EntityTracker(), and reset()
EmptyTracker ==
    [baselines |-> <<>>, entities |-> <<>>,
     playerState |-> createEmptyPlayerState,
     previousPlayerState |-> createEmptyPlayerState]

\* table[entityNum]
EntityOf(table, entityNum) ==
    IF entityNum \in DOMAIN table THEN table[entityNum] ELSE createEmptyEntity

\* buffer[idx] || 0
ByteOr0(buffer, idx) == IF idx < Len(buffer) THEN ByteAt(buffer, idx) ELSE 0

readUInt16(buffer, idx) ==
    IF idx + 2 > Len(buffer) THEN [value |-> 0, nextIndex |-> Len(buffer)]
    ELSE [value |-> readUInt16LE(buffer, idx), nextIndex |-> idx + 2]

readInt32(buffer, idx) ==
    IF idx + 4 > Len(buffer) THEN [value |-> 0, nextIndex |-> Len(buffer)]
    ELSE [value |-> readInt32LE(buffer, idx), nextIndex |-> idx + 4]

readCoord(buffer, idx) ==
    IF idx + 2 > Len(buffer) THEN [value |-> Eighths(0), nextIndex |-> Len(buffer)]
    ELSE [value |-> Eighths(readInt16LE(buffer, idx)), nextIndex |-> idx + 2]

readAngle(buffer, idx) ==
    IF idx >= Len(buffer) THEN [value |-> Angle(0), nextIndex |-> Len(buffer)]
    ELSE [value |-> Angle(ByteAt(buffer, idx)), nextIndex |-> idx + 1]

\* bits & mask, mask one of the U_* bits
HasBit(bits, mask) ==
    LET i == IF mask < 256 THEN 1 ELSE IF mask < 65536 THEN 2
             ELSE IF mask < 16777216 THEN 3 ELSE 4
        within == IF i = 1 THEN mask ELSE IF i = 2 THEN mask \div 256
                  ELSE IF i = 3 THEN mask \div 65536 ELSE mask \div 16777216
    IN (bits[i] \div within) % 2 = 1

parseEntityBits(data, idx) ==
    IF idx >= Len(data) THEN [bits |-> <<0, 0, 0, 0>>, nextIndex |-> idx]
    ELSE LET b0 == <<ByteAt(data, idx), 0, 0, 0>>
         IN IF ~HasBit(b0, U_MOREBITS1) THEN [bits |-> b0, nextIndex |-> idx + 1]
            ELSE IF idx + 1 >= Len(data) THEN [bits |-> b0, nextIndex |-> idx + 1]
            ELSE LET b1 == [b0 EXCEPT ![2] = ByteAt(data, idx + 1)]
                 IN IF ~HasBit(b1, U_MOREBITS2) THEN [bits |-> b1, nextIndex |-> idx + 2]
                    ELSE IF idx + 2 >= Len(data) THEN [bits |-> b1, nextIndex |-> idx + 2]
                    ELSE LET b2 == [b1 EXCEPT ![3] = ByteAt(data, idx + 2)]
                         IN IF ~HasBit(b2, U_MOREBITS3)
                            THEN [bits |-> b2, nextIndex |-> idx + 3]
                            ELSE IF idx + 3 >= Len(data)
                            THEN [bits |-> b2, nextIndex |-> idx + 3]
                            ELSE [bits |-> [b2 EXCEPT ![4] = ByteAt(data, idx + 3)],
                                  nextIndex |-> idx + 4]

\* The entity number that follows the bits
ReadEntityNum(data, idx, bits) ==
    IF HasBit(bits, U_NUMBER16) THEN readUInt16(data, idx)
    ELSE [value |-> ByteOr0(data, idx), nextIndex |-> idx + 1]

\* The reads of parseEntityStateFromBits after the removal check, in the
\* order of the code.  byte: data[idx++] || 0; uint16: readUInt16; sized: the
\* 8-bit mask, the 16-bit mask, or both for a 32-bit value; coord and angle:
\* one component of state.origin or state.angles; oldorigin: three coords.
EntityFields ==
    <<[kind |-> "byte", mask |-> U_MODEL, field |-> "modelindex"],
      [kind |-> "byte", mask |-> U_MODEL2, field |-> "modelindex2"],
      [kind |-> "byte", mask |-> U_MODEL3, field |-> "modelindex3"],
      [kind |-> "byte", mask |-> U_MODEL4, field |-> "modelindex4"],
      [kind |-> "byte", mask |-> U_FRAME8, field |-> "frame"],
      [kind |-> "uint16", mask |-> U_FRAME16, field |-> "frame"],
      [kind |-> "sized", mask |-> U_SKIN8, mask16 |-> U_SKIN16, field |-> "skinnum"],
      [kind |-> "sized", mask |-> U_EFFECTS8, mask16 |-> U_EFFECTS16, field |-> "effects"],
      [kind |-> "sized", mask |-> U_RENDERFX8, mask16 |-> U_RENDERFX16, field |-> "renderfx"],
      [kind |-> "coord", mask |-> U_ORIGIN1, field |-> "x"],
      [kind |-> "coord", mask |-> U_ORIGIN2, field |-> "y"],
      [kind |-> "coord", mask |-> U_ORIGIN3, field |-> "z"],
      [kind |-> "angle", mask |-> U_ANGLE1, field |-> "pitch"],
      [kind |-> "angle", mask |-> U_ANGLE2, field |-> "yaw"],
      [kind |-> "angle", mask |-> U_ANGLE3, field |-> "roll"],
      [kind |-> "oldorigin", mask |-> U_OLDORIGIN, field |-> "old_origin"],
      [kind |-> "byte", mask |-> U_SOUND, field |-> "sound"],
      [kind |-> "byte", mask |-> U_EVENT, field |-> "event"],
      [kind |-> "uint16", mask |-> U_SOLID, field |-> "solid"]>>

\* state[field] = value, and the index after the read
SetField(s, field, value, next) ==
    [state |-> [s.state EXCEPT ![field] = value], idx |-> next]

\* state[field] = r.value for a reader result r
SetRead(s, field, r) == SetField(s, field, r.value, r.nextIndex)

\* state[outer][field] = r.value for a reader result r
SetInner(s, outer, field, r) ==
    [state |-> [s.state EXCEPT ![outer] = [@ EXCEPT ![field] = r.value]],
     idx |-> r.nextIndex]

\* state.old_origin = { x, y, z } from three coords in a row
SetOldOriginZ(s, x, y, z) ==
    SetField(s, "old_origin", [x |-> x.value, y |-> y.value, z |-> z.value], z.nextIndex)

SetOldOriginY(data, s, x, y) == SetOldOriginZ(s, x, y, readCoord(data, y.nextIndex))

SetOldOriginX(data, s, x) == SetOldOriginY(data, s, x, readCoord(data, x.nextIndex))

\* One read: s holds the state built so far and the index
ReadField(data, bits, s, f) ==
    CASE f.kind = "byte" ->
            IF HasBit(bits, f.mask)
            THEN SetField(s, f.field, ByteOr0(data, s.idx), s.idx + 1) ELSE s
      [] f.kind = "uint16" ->
            IF HasBit(bits, f.mask) THEN SetRead(s, f.field, readUInt16(data, s.idx)) ELSE s
      [] f.kind = "sized" ->
            IF HasBit(bits, f.mask) /\ HasBit(bits, f.mask16)
            THEN SetRead(s, f.field, readInt32(data, s.idx))
            ELSE IF HasBit(bits, f.mask)
            THEN SetField(s, f.field, ByteOr0(data, s.idx), s.idx + 1)
            ELSE IF HasBit(bits, f.mask16)
            THEN SetRead(s, f.field, readUInt16(data, s.idx))
            ELSE s
      [] f.kind = "coord" ->
            IF HasBit(bits, f.mask)
            THEN SetInner(s, "origin", f.field, readCoord(data, s.idx)) ELSE s
      [] f.kind = "angle" ->
            IF HasBit(bits, f.mask)
            THEN SetInner(s, "angles", f.field, readAngle(data, s.idx)) ELSE s
      [] f.kind = "oldorigin" ->
            IF HasBit(bits, f.mask) THEN SetOldOriginX(data, s, readCoord(data, s.idx)) ELSE s

RECURSIVE ReadFields(_, _, _, _)
ReadFields(data, bits, s, i) ==
    IF i > Len(EntityFields) THEN s
    ELSE ReadFields(data, bits, ReadField(data, bits, s, EntityFields[i]), i + 1)

\* The result of parseEntityStateFromBits after its reads
StateAfterReads(baseline, s) ==
    [state |-> [s.state EXCEPT !.active = TRUE], nextIndex |-> s.idx,
     baseline |-> [baseline EXCEPT !.origin = s.state.origin, !.angles = s.state.angles]]

\* parseEntityStateFromBits without the removal check
parseEntityStateFromBits_NoRemove(data, idx, bits, baseline, entityNum) ==
    StateAfterReads(baseline,
        ReadFields(data, bits, [state |-> [baseline EXCEPT !.number = entityNum],
                                idx |-> idx], 1))

\* parseEntityStateFromBits.  state = { ...baseline } is a shallow copy:
\* state.origin and state.angles are the objects of the baseline, and
\* state.origin.x = ... and state.angles.pitch = ... write into them.  The
\* result carries the baseline as these writes leave it.
parseEntityStateFromBits(data, idx, bits, baseline, entityNum) ==
    LET state == [baseline EXCEPT !.number = entityNum]
    IN IF HasBit(bits, U_REMOVE)
       THEN [state |-> [state EXCEPT !.removed = TRUE, !.active = FALSE],
             nextIndex |-> idx, baseline |-> baseline]
       ELSE StateAfterReads(baseline,
                            ReadFields(data, bits, [state |-> state, idx |-> idx], 1))

\* EntityTracker.setBaseline: this.baselines[entityNum] = { ...state }
setBaseline(tracker, entityNum, state) ==
    IF entityNum >= 0 /\ entityNum < MAX_EDICTS
    THEN [tracker EXCEPT !.baselines = (entityNum :> state) @@ @]
    ELSE tracker

\* EntityTracker.updateEntity: Object.assign(entity, deltaState) leaves a
\* property "removed" the entity already has when deltaState has none.
UpdatedEntity(entity, entityNum, deltaState) ==
    [deltaState EXCEPT !.removed = deltaState.removed \/ entity.removed,
                       !.number = entityNum,
                       !.active = ~deltaState.removed]

updateEntity(tracker, entityNum, deltaState) ==
    IF entityNum < 0 \/ entityNum >= MAX_EDICTS THEN tracker
    ELSE [tracker EXCEPT !.entities =
              (entityNum :> UpdatedEntity(EntityOf(tracker.entities, entityNum),
                                          entityNum, deltaState)) @@ @]

\* getActiveEntities: this.entityTracker.entities.filter((e) => e.active)
getActiveEntities(tracker) ==
    {tracker.entities[n] : n \in {k \in DOMAIN tracker.entities : tracker.entities[k].active}}

\* The tracker after one delta: the writes through the shallow copy land in
\* the baseline, then updateEntity
ApplyDelta(tracker, entityNum, stateResult) ==
    updateEntity([tracker EXCEPT !.baselines =
                      IF stateResult.baseline = EntityOf(tracker.baselines, entityNum)
                      THEN @ ELSE (entityNum :> stateResult.baseline) @@ @],
                 entityNum, stateResult.state)

\* parsePacketEntities: updates.push(entity) pushes the object of the table,
\* so the list is kept as the entity numbers, in the order of the updates.
RECURSIVE parsePacketEntities(_, _, _, _)
EntitiesAfterState(data, entityNum, stateResult, tracker, updates) ==
    parsePacketEntities(data, stateResult.nextIndex,
                        ApplyDelta(tracker, entityNum, stateResult),
                        Append(updates, entityNum))

EntitiesAfterNum(data, bits, num, tracker, updates) ==
    IF num.value = 0 \/ num.value >= MAX_EDICTS
    THEN [updates |-> updates, nextIndex |-> num.nextIndex, tracker |-> tracker]
    ELSE EntitiesAfterState(data, num.value,
             parseEntityStateFromBits(data, num.nextIndex, bits,
                                      EntityOf(tracker.baselines, num.value), num.value),
             tracker, updates)

EntitiesAfterBits(data, bitsResult, tracker, updates) ==
    IF bitsResult.bits = <<0, 0, 0, 0>>
    THEN [updates |-> updates, nextIndex |-> bitsResult.nextIndex, tracker |-> tracker]
    ELSE EntitiesAfterNum(data, bitsResult.bits,
                          ReadEntityNum(data, bitsResult.nextIndex, bitsResult.bits),
                          tracker, updates)

parsePacketEntities(data, idx, tracker, updates) ==
    IF idx >= Len(data) THEN [updates |-> updates, nextIndex |-> idx, tracker |-> tracker]
    ELSE EntitiesAfterBits(data, parseEntityBits(data, idx), tracker, updates)

\* case SVC.SPAWNBASELINE
BaselineAfterState(st, entityNum, stateResult) ==
    [idx |-> stateResult.nextIndex,
     st |-> [st EXCEPT !.entityTracker = setBaseline(@, entityNum, stateResult.state)]]

BaselineAfterNum(data, bits, num, st) ==
    BaselineAfterState(st, num.value,
        parseEntityStateFromBits(data, num.nextIndex, bits, createEmptyEntity, num.value))

BaselineAfterBits(data, bitsResult, st) ==
    IF bitsResult.bits = <<0, 0, 0, 0>> THEN [idx |-> bitsResult.nextIndex, st |-> st]
    ELSE BaselineAfterNum(data, bitsResult.bits,
                          ReadEntityNum(data, bitsResult.nextIndex, bitsResult.bits), st)

ParseSpawnBaseline(data, idx, st) == BaselineAfterBits(data, parseEntityBits(data, idx), st)

(***************************************************************************)
(* Player state and FRAME                                                  *)
(***************************************************************************)
readAngle16(buffer, idx) ==
    IF idx + 2 > Len(buffer) THEN [value |-> Frac(0, 65536), nextIndex |-> Len(buffer)]
    ELSE [value |-> Frac(readInt16LE(buffer, idx) * 360, 65536), nextIndex |-> idx + 2]

\* flags & mask, flags a 16-bit number and mask one of the PS_* bits
HasFlag(flags, mask) == (flags \div mask) % 2 = 1

\* The reads of parsePlayerState in the order of the code
PlayerFields ==
    <<[kind |-> "pm_byte", mask |-> PS_M_TYPE, field |-> "pm_type"],
      [kind |-> "pm_vec", mask |-> PS_M_ORIGIN, field |-> "origin"],
      [kind |-> "pm_vec", mask |-> PS_M_VELOCITY, field |-> "velocity"],
      [kind |-> "pm_byte", mask |-> PS_M_TIME, field |-> "pm_time"],
      [kind |-> "pm_byte", mask |-> PS_M_FLAGS, field |-> "pm_flags"],
      [kind |-> "pm_int16", mask |-> PS_M_GRAVITY, field |-> "gravity"],
      [kind |-> "pm_angles", mask |-> PS_M_DELTA_ANGLES, field |-> "delta_angles"],
      [kind |-> "quarters", mask |-> PS_VIEWOFFSET, field |-> "viewoffset"],
      [kind |-> "angles16", mask |-> PS_VIEWANGLES, field |-> "viewangles"],
      [kind |-> "quarters", mask |-> PS_KICKANGLES, field |-> "kick_angles"],
      [kind |-> "byte", mask |-> PS_WEAPONINDEX, field |-> "gunindex"],
      [kind |-> "byte", mask |-> PS_WEAPONFRAME, field |-> "gunframe"],
      [kind |-> "blend", mask |-> PS_BLEND, field |-> "blend"],
      [kind |-> "fov", mask |-> PS_FOV, field |-> "fov"],
      [kind |-> "byte", mask |-> PS_RDFLAGS, field |-> "rdflags"]>>

\* Three readInt16 in a row
Triple(a, b, c) == [a |-> a.value, b |-> b.value, c |-> c.value, nextIndex |-> c.nextIndex]

Int16Third(data, a, b) == Triple(a, b, readInt16(data, b.nextIndex))
Int16Second(data, a) == Int16Third(data, a, readInt16(data, a.nextIndex))
ReadInt16x3(data, idx) == Int16Second(data, readInt16(data, idx))

Angle16Third(data, a, b) == Triple(a, b, readAngle16(data, b.nextIndex))
Angle16Second(data, a) == Angle16Third(data, a, readAngle16(data, a.nextIndex))
ReadAngle16x3(data, idx) == Angle16Second(data, readAngle16(data, idx))

\* A vector with the component names the field has
Vec(field, a, b, c) ==
    IF field \in {"origin", "velocity", "viewoffset"} THEN [x |-> a, y |-> b, z |-> c]
    ELSE [pitch |-> a, yaw |-> b, roll |-> c]

\* ps[field] = value, and ps.pmove[field] = value on the shared pmove object
SetPs(s, field, value, next) == [ps |-> [s.ps EXCEPT ![field] = value], idx |-> next]

SetPmove(s, field, value, next) ==
    [ps |-> [s.ps EXCEPT !.pmove = [@ EXCEPT ![field] = value]], idx |-> next]

SetPmoveVec(s, field, r) ==
    SetPmove(s, field, Vec(field, Eighths(r.a), Eighths(r.b), Eighths(r.c)), r.nextIndex)

SetPmoveAngles(s, field, r) ==
    SetPmove(s, field,
             Vec(field, Frac(r.a * 360, 65536), Frac(r.b * 360, 65536),
                 Frac(r.c * 360, 65536)),
             r.nextIndex)

SetPmoveRead(s, field, r) == SetPmove(s, field, r.value, r.nextIndex)

SetPsVec(s, field, r) == SetPs(s, field, Vec(field, r.a, r.b, r.c), r.nextIndex)

ReadPlayerField(data, s, f) ==
    CASE f.kind = "pm_byte" -> SetPmove(s, f.field, ByteOr0(data, s.idx), s.idx + 1)
      [] f.kind = "pm_vec" -> SetPmoveVec(s, f.field, ReadInt16x3(data, s.idx))
      [] f.kind = "pm_int16" -> SetPmoveRead(s, f.field, readInt16(data, s.idx))
      [] f.kind = "pm_angles" -> SetPmoveAngles(s, f.field, ReadInt16x3(data, s.idx))
      [] f.kind = "quarters" ->
            SetPs(s, f.field,
                  Vec(f.field, Frac(ByteOr0(data, s.idx), 4), Frac(ByteOr0(data, s.idx + 1), 4),
                      Frac(ByteOr0(data, s.idx + 2), 4)),
                  s.idx + 3)
      [] f.kind = "angles16" -> SetPsVec(s, f.field, ReadAngle16x3(data, s.idx))
      [] f.kind = "byte" -> SetPs(s, f.field, ByteOr0(data, s.idx), s.idx + 1)
      [] f.kind = "blend" ->
            SetPs(s, f.field,
                  <<Frac(ByteOr0(data, s.idx), 255), Frac(ByteOr0(data, s.idx + 1), 255),
                    Frac(ByteOr0(data, s.idx + 2), 255), Frac(ByteOr0(data, s.idx + 3), 255)>>,
                  s.idx + 4)
      [] f.kind = "fov" ->
            SetPs(s, f.field, IF ByteOr0(data, s.idx) # 0 THEN ByteOr0(data, s.idx) ELSE 90,
                  s.idx + 1)

RECURSIVE ReadPlayerFields(_, _, _, _)
ReadPlayerFields(data, flags, s, i) ==
    IF i > Len(PlayerFields) THEN s
    ELSE ReadPlayerFields(data, flags,
             IF HasFlag(flags, PlayerFields[i].mask)
             THEN ReadPlayerField(data, s, PlayerFields[i]) ELSE s,
             i + 1)

\* parsePlayerState: ps = { ...this.entityTracker.playerState }
PlayerStateResult(s) == [playerState |-> s.ps, nextIndex |-> s.idx]

parsePlayerState(data, idx, flags, playerState) ==
    PlayerStateResult(ReadPlayerFields(data, flags, [ps |-> playerState, idx |-> idx], 1))

\* EntityTracker.updatePlayerState after parsePlayerState: the copy shares the
\* pmove object of playerState, into which parsePlayerState has written, so
\* previousPlayerState gets the new pmove and the old other properties.
updatePlayerState(tracker, delta) ==
    [tracker EXCEPT !.previousPlayerState = [tracker.playerState EXCEPT !.pmove = delta.pmove],
                    !.playerState = delta]

\* case SVC.FRAME up to the player state flags (the caller has checked
\* idx + 4 <= length): frameNum, the index after the header, and psFlags
FrameHeader(data, idx0, serverProtocol) ==
    LET enhanced == serverProtocol \in {VERSION_Q2PRO, VERSION_AQTION, VERSION_R1Q2}
        frameNum == IF enhanced
                    THEN Low24(data, idx0) + 16777216 * (ByteAt(data, idx0 + 3) % 8)
                    ELSE readInt32LE(data, idx0)
        i1 == IF enhanced THEN idx0 + 4
              ELSE IF idx0 + 8 <= Len(data) THEN idx0 + 8 ELSE idx0 + 4
        i2 == IF i1 < Len(data) THEN i1 + 1 ELSE i1
        i3 == IF i2 < Len(data) THEN i2 + 1 + ByteAt(data, i2) ELSE i2
        hasFlags == i3 + 2 <= Len(data)
    IN [frameNum |-> frameNum,
        psFlags |-> IF hasFlags THEN readUInt16LE(data, i3) ELSE 0,
        idx |-> IF hasFlags THEN i3 + 2 ELSE i3]

\* updatePlayerState and messages.push({ type: "player_state", ... })
PlayerStateApplied(st, psResult) ==
    [idx |-> psResult.nextIndex,
     st |-> Push([st EXCEPT !.entityTracker = updatePlayerState(@, psResult.playerState)],
                 [type |-> "player_state",
                  data |-> [position |-> psResult.playerState.pmove.origin,
                            velocity |-> psResult.playerState.pmove.velocity,
                            viewangles |-> psResult.playerState.viewangles,
                            weapon |-> psResult.playerState.gunindex,
                            fov |-> psResult.playerState.fov]])]

\* The player state of a frame, when it has one
FramePlayerState(data, h, st) ==
    IF h.psFlags # 0 /\ h.idx < Len(data)
    THEN PlayerStateApplied(st, parsePlayerState(data, h.idx, h.psFlags,
                                                 st.entityTracker.playerState))
    ELSE [idx |-> h.idx, st |-> st]

\* messages.push({ type: "entity_state", data: entity }) for every update;
\* entity is the object of the table, here as the frame leaves it (see
\* ReturnedMessages for what the message shows once the payload is decoded)
RECURSIVE PushEntityStates(_, _)
PushEntityStates(st, updates) ==
    IF updates = <<>> THEN st
    ELSE PushEntityStates(
             Push(st, [type |-> "entity_state",
                       data |-> st.entityTracker.entities[Head(updates)]]),
             Tail(updates))

EntitiesApplied(st, entitiesResult) ==
    [idx |-> entitiesResult.nextIndex,
     st |-> PushEntityStates([st EXCEPT !.entityTracker = entitiesResult.tracker],
                             entitiesResult.updates)]

\* The packet entities of a frame, when bytes remain
FrameEntities(data, r) ==
    IF r.idx < Len(data)
    THEN EntitiesApplied(r.st, parsePacketEntities(data, r.idx, r.st.entityTracker, <<>>))
    ELSE r

FrameAfterHeader(data, h, st) ==
    FrameEntities(data, FramePlayerState(data, h, [st EXCEPT !.lastFrameNum = h.frameNum]))

\* case SVC.FRAME
ParseFrame(data, idx0, st) ==
    FrameAfterHeader(data, FrameHeader(data, idx0, st.serverProtocol), st)

(***************************************************************************)
(* zlib.inflateRawSync: the inflate of a raw deflate stream (RFC 1951).    *)
(* A block starts with the final flag and two type bits: type 0 is stored  *)
(* (LEN and its complement from the next byte boundary, then LEN bytes),   *)
(* type 1 uses the fixed Huffman codes, type 2 sends its codes as code     *)
(* lengths first, type 3 is invalid.  Bits are taken from the least        *)
(* significant bit of each byte; Huffman codes are read bit by bit, most   *)
(* significant bit first.  inflateRawSync throws (ok = FALSE) on a stream  *)
(* that ends before the end of its final block and on every invalid block, *)
(* code set, symbol or distance; bytes behind the final block are ignored. *)
(* The inflate is a machine taking one step per block header, code length  *)
(* and literal or match; s is its state: the bit position p, the output,   *)
(* the final flag and codes of the block, the code lengths read so far.    *)
(***************************************************************************)
InflateFailed == [ok |-> FALSE, data |-> <<>>]

\* The state of an inflate that has thrown
Thrown(s) == [s EXCEPT !.done = TRUE, !.ok = FALSE]

\* Bit p of the stream, counted from the least significant bit of the first byte
BitAt(data, p) == (data[(p \div 8) + 1] \div (2 ^ (p % 8))) % 2

\* The stream has n bits from bit p on
HasBits(data, p, n) == p + n <= 8 * Len(data)

\* The number made of the n bits from bit p on, least significant first
RECURSIVE BitsAt(_, _, _)
BitsAt(data, p, n) == IF n = 0 THEN 0 ELSE BitAt(data, p) + 2 * BitsAt(data, p + 1, n - 1)

\* The symbols (numbered from 0) whose code has the length len, in increasing
\* order; lengths[s + 1] is the code length of symbol s, 0 for an unused symbol
SymbolsOfLength(lengths, len) ==
    SelectSeq([i \in 1..Len(lengths) |-> i - 1], LAMBDA s : lengths[s + 1] = len)

RECURSIVE SymbolsByLength(_, _)
SymbolsByLength(lengths, len) ==
    IF len > 15 THEN <<>>
    ELSE SymbolsOfLength(lengths, len) \o SymbolsByLength(lengths, len + 1)

\* The codes left unused by the lengths count[1..15]: 0 for a complete set,
\* negative as soon as the set is over-subscribed, positive for an incomplete set
RECURSIVE CodesLeft(_, _, _)
CodesLeft(count, len, left) ==
    IF len > 15 THEN left
    ELSE IF 2 * left - count[len] < 0 THEN 2 * left - count[len]
    ELSE CodesLeft(count, len + 1, 2 * left - count[len])

\* The canonical Huffman code of a list of code lengths: the number of codes
\* of each length, the symbols ordered by code, and the codes left unused
HuffmanOfCounts(lengths, count) ==
    [n |-> Len(lengths), count |-> count, symbol |-> SymbolsByLength(lengths, 1),
     left |-> IF count[0] = Len(lengths) THEN 0 ELSE CodesLeft(count, 1, 1)]

Huffman(lengths) ==
    HuffmanOfCounts(lengths,
        [len \in 0..15 |-> Cardinality({i \in 1..Len(lengths) : lengths[i] = len})])

\* A code set inflate accepts for literals/lengths and for distances: complete,
\* or incomplete with no code longer than one bit
UsableCode(h) == h.left = 0 \/ (h.left > 0 /\ h.n = h.count[0] + h.count[1])

NoSymbol == [ok |-> FALSE, symbol |-> 0, p |-> 0]

\* One symbol read with the code h from bit p on: code holds the bits read so
\* far, first the first code of the length len, index the place of its symbol.
\* No symbol when the stream ends inside the code or no code matches.
RECURSIVE DecodeFrom(_, _, _, _, _, _, _)
DecodeFrom(h, data, p, len, code, first, index) ==
    IF len > 15 \/ ~HasBits(data, p, 1) THEN NoSymbol
    ELSE IF code + BitAt(data, p) - h.count[len] < first
    THEN [ok |-> TRUE, symbol |-> h.symbol[index + (code + BitAt(data, p) - first) + 1],
          p |-> p + 1]
    ELSE DecodeFrom(h, data, p + 1, len + 1, 2 * (code + BitAt(data, p)),
                    2 * (first + h.count[len]), index + h.count[len])

Decode(h, data, p) == DecodeFrom(h, data, p, 1, 0, 0, 0)

\* The fixed codes of a block of type 1
FixedLengths ==
    [i \in 1..288 |-> IF i <= 144 THEN 8 ELSE IF i <= 256 THEN 9 ELSE IF i <= 280 THEN 7 ELSE 8]

FixedLencode == Huffman(FixedLengths)
FixedDistcode == Huffman([i \in 1..30 |-> 5])

\* Length symbols 257..285 and distance symbols 0..29: base value and extra bits
LengthBase ==
    <<3, 4, 5, 6, 7, 8, 9, 10, 11, 13, 15, 17, 19, 23, 27, 31, 35, 43, 51, 59, 67, 83, 99, 115,
      131, 163, 195, 227, 258>>
LengthExtra ==
    <<0, 0, 0, 0, 0, 0, 0, 0, 1, 1, 1, 1, 2, 2, 2, 2, 3, 3, 3, 3, 4, 4, 4, 4, 5, 5, 5, 5, 0>>
DistBase ==
    <<1, 2, 3, 4, 5, 7, 9, 13, 17, 25, 33, 49, 65, 97, 129, 193, 257, 385, 513, 769, 1025, 1537,
      2049, 3073, 4097, 6145, 8193, 12289, 16385, 24577>>
DistExtra ==
    <<0, 0, 0, 0, 1, 1, 2, 2, 3, 3, 4, 4, 5, 5, 6, 6, 7, 7, 8, 8, 9, 9, 10, 10, 11, 11, 12, 12,
      13, 13>>

\* The order in which a block of type 2 sends the lengths of the code length code
CodeLengthOrder == <<16, 17, 18, 0, 8, 7, 9, 6, 10, 5, 11, 4, 12, 3, 13, 2, 14, 1, 15>>

\* out with len bytes copied from dist bytes back; the copy may run into the
\* bytes it has just written
CopyMatch(out, len, dist) ==
    out \o [k \in 1..len |-> out[Len(out) - dist + ((k - 1) % dist) + 1]]

\* Behind a block: the end when it was the final one, else the next block
EndOfBlock(s, p, out) ==
    IF s.final THEN [s EXCEPT !.done = TRUE, !.ok = TRUE, !.p = p, !.out = out]
    ELSE [s EXCEPT !.phase = "block", !.p = p, !.out = out]

\* A match whose distance symbol was read: extra bits, then the copy
MatchAfterDistance(data, s, sym, len) ==
    IF ~sym.ok \/ sym.symbol >= 30 THEN Thrown(s)
    ELSE IF ~HasBits(data, sym.p, DistExtra[sym.symbol + 1]) THEN Thrown(s)
    ELSE IF DistBase[sym.symbol + 1] + BitsAt(data, sym.p, DistExtra[sym.symbol + 1])
            > Len(s.out)
    THEN Thrown(s)
    ELSE [s EXCEPT !.p = sym.p + DistExtra[sym.symbol + 1],
                   !.out = CopyMatch(@, len, DistBase[sym.symbol + 1]
                               + BitsAt(data, sym.p, DistExtra[sym.symbol + 1]))]

\* A match whose length symbol k + 257 was read: extra bits, then the distance
MatchAfterLength(data, s, p, k) ==
    IF ~HasBits(data, p, LengthExtra[k + 1]) THEN Thrown(s)
    ELSE MatchAfterDistance(data, s, Decode(s.distcode, data, p + LengthExtra[k + 1]),
                            LengthBase[k + 1] + BitsAt(data, p, LengthExtra[k + 1]))

\* One literal/length symbol of a compressed block: a literal, the end of
\* the block, or a match
AfterSymbol(data, s, sym) ==
    IF ~sym.ok THEN Thrown(s)
    ELSE IF sym.symbol < 256 THEN [s EXCEPT !.p = sym.p, !.out = Append(@, sym.symbol)]
    ELSE IF sym.symbol = 256 THEN EndOfBlock(s, sym.p, s.out)
    ELSE IF sym.symbol >= 286 THEN Thrown(s)
    ELSE MatchAfterLength(data, s, sym.p, sym.symbol - 257)

\* The lengths of the code length code: ncode lengths of three bits each, in
\* CodeLengthOrder; the other symbols are unused
CodeLengthLengths(data, p, ncode) ==
    [i \in 1..19 |->
        IF (CHOOSE k \in 1..19 : CodeLengthOrder[k] = i - 1) <= ncode
        THEN BitsAt(data, p + 3 * ((CHOOSE k \in 1..19 : CodeLengthOrder[k] = i - 1) - 1), 3)
        ELSE 0]

\* A repeat symbol: n times the length len, never past the total
RepeatLength(s, p, len, n) ==
    IF Len(s.lengths) + n > s.nlen + s.ndist THEN Thrown(s)
    ELSE [s EXCEPT !.p = p, !.lengths = @ \o [i \in 1..n |-> len]]

\* One symbol of the code length code: 0..15 is a length, 16 repeats the last
\* length 3..6 times, 17 and 18 give 3..10 and 11..138 zeros
AfterLengthSymbol(data, s, sym) ==
    IF ~sym.ok THEN Thrown(s)
    ELSE IF sym.symbol < 16 THEN [s EXCEPT !.p = sym.p, !.lengths = Append(@, sym.symbol)]
    ELSE IF sym.symbol = 16
    THEN IF s.lengths = <<>> \/ ~HasBits(data, sym.p, 2) THEN Thrown(s)
         ELSE RepeatLength(s, sym.p + 2, s.lengths[Len(s.lengths)], 3 + BitsAt(data, sym.p, 2))
    ELSE IF sym.symbol = 17
    THEN IF ~HasBits(data, sym.p, 3) THEN Thrown(s)
         ELSE RepeatLength(s, sym.p + 3, 0, 3 + BitsAt(data, sym.p, 3))
    ELSE IF ~HasBits(data, sym.p, 7) THEN Thrown(s)
         ELSE RepeatLength(s, sym.p + 7, 0, 11 + BitsAt(data, sym.p, 7))

\* A block of type 2 with its two codes built
DynamicCodes(s, lencode, distcode) ==
    IF ~UsableCode(lencode) \/ ~UsableCode(distcode) THEN Thrown(s)
    ELSE [s EXCEPT !.phase = "codes", !.lencode = lencode, !.distcode = distcode]

\* A block of type 2 with all its code lengths read: the end-of-block symbol
\* 256 must have a code
DynamicTables(s) ==
    IF s.lengths[257] = 0 THEN Thrown(s)
    ELSE DynamicCodes(s, Huffman(SubSeq(s.lengths, 1, s.nlen)),
                      Huffman(SubSeq(s.lengths, s.nlen + 1, s.nlen + s.ndist)))

\* A block of type 2 with its code length code built, which must be complete
DynamicLengths(s, p, nlen, ndist, h) ==
    IF h.left # 0 THEN Thrown(s)
    ELSE [s EXCEPT !.phase = "lengths", !.p = p, !.h = h, !.lengths = <<>>,
                   !.nlen = nlen, !.ndist = ndist]

\* A block of type 2 with its three counts read
DynamicHeader(data, s, p, nlen, ndist, ncode) ==
    IF nlen > 286 \/ ndist > 30 THEN Thrown(s)
    ELSE IF ~HasBits(data, p, 3 * ncode) THEN Thrown(s)
    ELSE DynamicLengths(s, p + 3 * ncode, nlen, ndist,
                        Huffman(CodeLengthLengths(data, p, ncode)))

\* A block of type 2: 5 bits HLIT, 5 bits HDIST, 4 bits HCLEN
DynamicBlock(data, s, p) ==
    IF ~HasBits(data, p, 14) THEN Thrown(s)
    ELSE DynamicHeader(data, s, p + 14, 257 + BitsAt(data, p, 5),
                       1 + BitsAt(data, p + 5, 5), 4 + BitsAt(data, p + 10, 4))

\* A block of type 0 whose LEN is at the byte idx, the first byte boundary
\* behind the block header
StoredBlock(data, s, idx) ==
    IF idx + 4 > Len(data) THEN Thrown(s)
    ELSE IF readUInt16LE(data, idx + 2) # 65535 - readUInt16LE(data, idx) THEN Thrown(s)
    ELSE IF idx + 4 + readUInt16LE(data, idx) > Len(data) THEN Thrown(s)
    ELSE EndOfBlock(s, 8 * (idx + 4 + readUInt16LE(data, idx)),
                    s.out \o slice(data, idx + 4, idx + 4 + readUInt16LE(data, idx)))

\* The block whose three header bits are at bit p; s has its final flag
BlockOfType(data, s, p, type) ==
    CASE type = 0 -> StoredBlock(data, s, (p + 3 + 7) \div 8)
      [] type = 1 -> [s EXCEPT !.phase = "codes", !.p = p + 3, !.lencode = FixedLencode,
                               !.distcode = FixedDistcode]
      [] type = 2 -> DynamicBlock(data, s, p + 3)
      [] OTHER -> Thrown(s)

BlockHeader(data, s) ==
    IF ~HasBits(data, s.p, 3) THEN Thrown(s)
    ELSE BlockOfType(data, [s EXCEPT !.final = BitAt(data, s.p) = 1], s.p,
                     BitsAt(data, s.p + 1, 2))

\* One step of the inflate
InflateStep(data, s) ==
    CASE s.phase = "block" -> BlockHeader(data, s)
      [] s.phase = "lengths" ->
             IF Len(s.lengths) >= s.nlen + s.ndist THEN DynamicTables(s)
             ELSE AfterLengthSymbol(data, s, Decode(s.h, data, s.p))
      [] s.phase = "codes" -> AfterSymbol(data, s, Decode(s.lencode, data, s.p))

\* Up to 2^n steps of the inflate, stopping where it ends or throws
RECURSIVE InflateSteps(_, _, _)
InflateSteps(data, s, n) ==
    IF s.done THEN s
    ELSE IF n = 0 THEN InflateStep(data, s)
    ELSE InflateSteps(data, InflateSteps(data, s, n - 1), n - 1)

\* The least exponent from n on whose power of two is k or more
RECURSIVE EnoughSteps(_, _)
EnoughSteps(k, n) == IF 2 ^ n >= k THEN n ELSE EnoughSteps(k, n + 1)

InflateStart ==
    [done |-> FALSE, ok |-> FALSE, phase |-> "block", p |-> 0, out |-> <<>>, final |-> FALSE,
     lencode |-> FixedLencode, distcode |-> FixedDistcode, h |-> FixedDistcode,
     lengths |-> <<>>, nlen |-> 0, ndist |-> 0]

\* What inflateRawSync returns, or that it has thrown
Inflated(s) == IF s.done /\ s.ok THEN [ok |-> TRUE, data |-> s.out] ELSE InflateFailed

\* Every step but the one building the codes of a block takes a bit or more
\* of the stream, so 16 * Len(data) + 2 steps reach the end of any stream
inflateRawSync(data) ==
    Inflated(InflateSteps(data, InflateStart, EnoughSteps(16 * Len(data) + 2, 0)))

\* decompressZlib: the inflated bytes, or null (ok = FALSE) when inflating throws
decompressZlib(data) == inflateRawSync(data)

\* return messages, with the messages of the payload so far discarded
StopDecoding_Discarding(st) == [st EXCEPT !.messages = <<>>]

\* return messages: decoding of the payload ends before its last byte
StopDecoding(st) == st

RECURSIVE ParseFrom(_, _, _, _)
\* The loop goes on after a case that returns the index and the parse state
ContinueFrom(data, r, isNested) == ParseFrom(data, r.idx, r.st, isNested)

\* case SVC.ZPACKET pushing the inflated messages after those behind the packet
ZPacketInflated_Appending(data, next, decompressed, st, isNested) ==
    IF decompressed.ok
    THEN ParseFrom(decompressed.data, 0, ParseFrom(data, next, st, isNested), TRUE)
    ELSE ParseFrom(data, next, st, isNested)

\* case SVC.ZPACKET after decompressZlib: the messages of the inflated bytes,
\* decoded as a nested stream, are pushed, and the loop goes on behind the packet
ZPacketInflated(data, next, decompressed, st, isNested) ==
    ParseFrom(data, next,
              IF decompressed.ok THEN ParseFrom(decompressed.data, 0, st, TRUE) ELSE st,
              isNested)

\* case SVC.ZPACKET with the four header bytes present
ZPacketOfLength(data, idx, inlen, st, isNested) ==
    IF idx + 4 + inlen > Len(data) THEN StopDecoding(st)
    ELSE ZPacketInflated(data, idx + 4 + inlen,
                         decompressZlib(slice(data, idx + 4, idx + 4 + inlen)), st, isNested)

ParseFrom(data, idx0, st, isNested) ==
    IF idx0 >= Len(data) THEN st
    ELSE
    LET opcode == ByteAt(data, idx0)
        masked == opcode % (SVCMD_MASK + 1)
        extended == masked = SVC_EXTEND /\ idx0 + 1 < Len(data)
        cmd == IF extended THEN ByteAt(data, idx0 + 1) ELSE masked
        idx == IF extended THEN idx0 + 2 ELSE idx0 + 1
    IN
    CASE cmd = SVC_NOP -> ParseFrom(data, idx, st, isNested)
      [] cmd \in {SVC_MUZZLEFLASH, SVC_MUZZLEFLASH2} -> ParseFrom(data, idx + 3, st, isNested)
      [] cmd = SVC_TEMP_ENTITY ->
            IF idx >= Len(data) THEN StopDecoding(st)
            ELSE ParseFrom(data, SkipTempEntity(data, idx), st, isNested)
      [] cmd = SVC_LAYOUT -> ParseFrom(data, readCString(data, idx).nextIndex, st, isNested)
      [] cmd = SVC_INVENTORY -> ParseFrom(data, idx + 512, st, isNested)
      [] cmd = SVC_SERVERDATA ->
            IF idx + 9 > Len(data) THEN StopDecoding(st)
            ELSE ContinueFrom(data, ParseServerData(data, idx, st), isNested)
      [] cmd = SVC_CONFIGSTRING ->
            IF idx + 2 > Len(data) THEN StopDecoding(st)
            ELSE LET csIndex == readUInt16LE(data, idx)
                     str == readCString(data, idx + 2)
                     cleanText == cleanQuakeString(str.text)
                 IN ParseFrom(data, str.nextIndex,
                        IF cleanText # <<>>
                        THEN Push(st, [type |-> "configstring", index |-> csIndex,
                                       text |-> cleanText])
                        ELSE st, isNested)
      [] cmd = SVC_PRINT ->
            IF idx >= Len(data) THEN StopDecoding(st)
            ELSE LET level == ByteAt(data, idx)
                     str == readCString(data, idx + 1)
                     cleanText == cleanQuakeString(str.text)
                 IN ParseFrom(data, str.nextIndex,
                        IF cleanText # <<>>
                        THEN Push(st, [type |-> "print", level |-> level, text |-> cleanText])
                        ELSE st, isNested)
      [] cmd = SVC_CENTERPRINT ->
            LET str == readCString(data, idx)
                cleanText == cleanQuakeString(str.text)
            IN ParseFrom(data, str.nextIndex,
                   IF cleanText # <<>>
                   THEN Push(st, [type |-> "centerprint", text |-> cleanText])
                   ELSE st, isNested)
      [] cmd = SVC_STUFFTEXT ->
            LET str == readCString(data, idx)
                stuffCmd == trim(str.text)
            IN ParseFrom(data, str.nextIndex,
                   IF stuffCmd # <<>>
                   THEN Push(st, [type |-> "stufftext", text |-> stuffCmd])
                   ELSE st, isNested)
      [] cmd = SVC_SOUND ->
            IF idx >= Len(data) THEN StopDecoding(st)
            ELSE ParseFrom(data, SkipSound(data, idx), st, isNested)
      [] cmd = SVC_DISCONNECT -> Push(st, [type |-> "server_disconnect"])
      [] cmd = SVC_RECONNECT -> Push(st, [type |-> "reconnect"])
      [] cmd \in {SVC_PLAYERINFO, SVC_PACKETENTITIES, SVC_DELTAPACKETENTITIES} -> StopDecoding(st)
      [] cmd = SVC_DOWNLOAD ->
            IF idx + 2 > Len(data) THEN StopDecoding(st)
            ELSE LET size == readInt16LE(data, idx)
                 IN ParseFrom(data, idx + 3 + (IF size > 0 THEN size ELSE 0), st, isNested)
      [] cmd = SVC_GAMESTATE -> ParseGameState(data, idx, st)
      [] cmd = SVC_SETTING ->
            IF idx + 8 > Len(data) THEN StopDecoding(st)
            ELSE ParseFrom(data, idx + 8, st, isNested)
      [] cmd \in {SVC_CONFIGSTRINGSTREAM, SVC_BASELINESTREAM} -> StopDecoding(st)
      [] cmd = SVC_SPAWNBASELINE ->
            ContinueFrom(data, ParseSpawnBaseline(data, idx, st), isNested)
      [] cmd = SVC_FRAME ->
            IF idx + 4 > Len(data) THEN StopDecoding(st)
            ELSE ContinueFrom(data, ParseFrame(data, idx, st), isNested)
      [] cmd = SVC_ZPACKET ->
            IF idx + 4 > Len(data) THEN StopDecoding(st)
            ELSE ZPacketOfLength(data, idx, readUInt16LE(data, idx), st, isNested)
      [] OTHER -> IF isNested THEN ParseFrom(data, idx, st, isNested) ELSE StopDecoding(st)

\* One message as the caller of parseGameMessage finds it.  The data of an
\* entity_state message is the object entities[n] of the table itself, not a
\* copy: Object.assign in updateEntity and the writes through the shared
\* origin and angles objects of later deltas of the same payload change it,
\* so the message shows entity n as the whole payload leaves it.
ReturnedMessage(message, entities) ==
    IF message.type = "entity_state"
    THEN [message EXCEPT !.data = entities[message.data.number]]
    ELSE message

\* return messages
ReturnedMessages(st) ==
    [st EXCEPT !.messages = [i \in 1..Len(st.messages) |->
                                 ReturnedMessage(st.messages[i], st.entityTracker.entities)]]

\* parseGameMessage(data, isNested) on a client whose fields that the decoder
\* reads and assigns are given: the messages and these fields afterwards.
parseGameMessage(data, isNested, serverProtocol, serverProtocolMinor, lastFrameNum, entityTracker) ==
    ReturnedMessages(
        ParseFrom(data, 0, [messages |-> <<>>, serverProtocol |-> serverProtocol,
                            serverProtocolMinor |-> serverProtocolMinor,
                            lastFrameNum |-> lastFrameNum,
                            entityTracker |-> entityTracker], isNested))

\* processServerData, second attempt: inflate data.slice(4, 4 + inlen)
InflatedBehindHeader(data, z) == IF z.ok /\ z.data # <<>> THEN z.data ELSE data

\* processServerData after the first attempt failed: the payload is taken as
\* inlen, outlen and a compressed body when the two words are plausible
WithSizeHeader(data) ==
    LET inlen == readUInt16LE(data, 0)
        outlen == readUInt16LE(data, 2)
    IN IF inlen > 0 /\ inlen < Len(data) - 4 /\ outlen > 0 /\ outlen < 65536
       THEN InflatedBehindHeader(data, inflateRawSync(slice(data, 4, 4 + inlen)))
       ELSE data

\* processServerData, first attempt: inflate the whole payload
InflatedWhole(data, z) == IF z.ok /\ z.data # <<>> THEN z.data ELSE WithSizeHeader(data)

\* The bytes processServerData hands to parseGameMessage: the payload itself
\* when it is shorter than 5 bytes, starts with an opcode in NOP..CVARSYNC or
\* with another byte that is neither 0 nor has bit 7 set, or does not inflate
GameMessageBytes(data) ==
    IF Len(data) < 5 THEN data
    ELSE IF ByteAt(data, 0) >= SVC_NOP /\ ByteAt(data, 0) <= SVC_CVARSYNC THEN data
    ELSE IF ByteAt(data, 0) = 0 \/ ByteAt(data, 0) >= 128
         THEN InflatedWhole(data, inflateRawSync(data))
         ELSE data

processServerData(data, serverProtocol, serverProtocolMinor, lastFrameNum, entityTracker) ==
    parseGameMessage(GameMessageBytes(data), FALSE, serverProtocol, serverProtocolMinor,
                     lastFrameNum, entityTracker)

VARIABLES
    passiveMode, monitorMode, maxReconnectAttempts, socket,
    isConnected, connectionState, reconnectAttempts, clientChallengeId,
    clientQport, serverProtocol, serverProtocolMinor, netchanType,
    incomingSequence, incomingAcknowledged, incomingReliableAcknowledged, incomingReliableSequence,
    outgoingSequence, reliableSequence, lastReliableSequence, fragmentSequence,
    fragmentBuffer, serverCount, spawnCount, lastFrameNum, entityTracker,
    currentMapName, configStrings, playerNames, hasSentNew,
    hasSentBegin, precacheReceived, hasServerData, respondedVersion,
    respondedAcToken, sentConfigstrings, sentBaselines, pendingCommands,
    awaitingBegin, heartbeatInterval, keepAliveInterval, monitorPollInterval,
    lastServerStatus, timeouts, liveIntervals, socketCreated, sent, emitted,
    handed, didReset, threw, rx

vars ==
    <<passiveMode, monitorMode, maxReconnectAttempts, socket,
      isConnected, connectionState, reconnectAttempts, clientChallengeId,
      clientQport, serverProtocol, serverProtocolMinor, netchanType,
      incomingSequence, incomingAcknowledged, incomingReliableAcknowledged, incomingReliableSequence,
      outgoingSequence, reliableSequence, lastReliableSequence, fragmentSequence,
      fragmentBuffer, serverCount, spawnCount, lastFrameNum, entityTracker,
      currentMapName, configStrings, playerNames, hasSentNew,
      hasSentBegin, precacheReceived, hasServerData, respondedVersion,
      respondedAcToken, sentConfigstrings, sentBaselines, pendingCommands,
      awaitingBegin, heartbeatInterval, keepAliveInterval, monitorPollInterval,
      lastServerStatus, timeouts, liveIntervals, socketCreated, sent, emitted,
      handed, didReset, threw, rx>>

(***************************************************************************)
(* getServerStatus(host, port): the state of one call.  net is the pair    *)
(* host, port; promise is the promise returned (state "none" before the    *)
(* call); statusTimeout is the 1 s timer, statusSocket the socket of the   *)
(* call, sendCallback the callback handed to socket.send.  closeCalls      *)
(* counts the calls of socket.close(), and uncaught is set when a callback *)
(* of the call throws.                                                     *)
(***************************************************************************)
VARIABLES net, promise, statusTimeout, statusSocket, sendCallback, closeCalls, uncaught

queryVars == <<net, promise, statusTimeout, statusSocket, sendCallback, closeCalls, uncaught>>

\* getServerStatus has not been called
NoQuery ==
    /\ net = <<>>
    /\ promise = [state |-> "none"]
    /\ statusTimeout = "none"
    /\ statusSocket = "none"
    /\ sendCallback = "none"
    /\ closeCalls = 0
    /\ uncaught = FALSE

\* The client object as one record, for the methods below.
This ==
    [passiveMode |-> passiveMode,
     monitorMode |-> monitorMode,
     maxReconnectAttempts |-> maxReconnectAttempts,
     socket |-> socket,
     isConnected |-> isConnected,
     connectionState |-> connectionState,
     reconnectAttempts |-> reconnectAttempts,
     clientChallengeId |-> clientChallengeId,
     clientQport |-> clientQport,
     serverProtocol |-> serverProtocol,
     serverProtocolMinor |-> serverProtocolMinor,
     netchanType |-> netchanType,
     incomingSequence |-> incomingSequence,
     incomingAcknowledged |-> incomingAcknowledged,
     incomingReliableAcknowledged |-> incomingReliableAcknowledged,
     incomingReliableSequence |-> incomingReliableSequence,
     outgoingSequence |-> outgoingSequence,
     reliableSequence |-> reliableSequence,
     lastReliableSequence |-> lastReliableSequence,
     fragmentSequence |-> fragmentSequence,
     fragmentBuffer |-> fragmentBuffer,
     serverCount |-> serverCount,
     spawnCount |-> spawnCount,
     lastFrameNum |-> lastFrameNum,
     entityTracker |-> entityTracker,
     currentMapName |-> currentMapName,
     configStrings |-> configStrings,
     playerNames |-> playerNames,
     hasSentNew |-> hasSentNew,
     hasSentBegin |-> hasSentBegin,
     precacheReceived |-> precacheReceived,
     hasServerData |-> hasServerData,
     respondedVersion |-> respondedVersion,
     respondedAcToken |-> respondedAcToken,
     sentConfigstrings |-> sentConfigstrings,
     sentBaselines |-> sentBaselines,
     pendingCommands |-> pendingCommands,
     awaitingBegin |-> awaitingBegin,
     heartbeatInterval |-> heartbeatInterval,
     keepAliveInterval |-> keepAliveInterval,
     monitorPollInterval |-> monitorPollInterval,
     lastServerStatus |-> lastServerStatus,
     timeouts |-> timeouts,
     liveIntervals |-> liveIntervals,
     socketCreated |-> socketCreated,
     sent |-> sent,
     emitted |-> emitted,
     handed |-> handed,
     didReset |-> didReset,
     threw |-> threw,
     rx |-> rx]

\* The client object after a method has run.
Commit(t) ==
    /\ passiveMode' = t.passiveMode
    /\ monitorMode' = t.monitorMode
    /\ maxReconnectAttempts' = t.maxReconnectAttempts
    /\ socket' = t.socket
    /\ isConnected' = t.isConnected
    /\ connectionState' = t.connectionState
    /\ reconnectAttempts' = t.reconnectAttempts
    /\ clientChallengeId' = t.clientChallengeId
    /\ clientQport' = t.clientQport
    /\ serverProtocol' = t.serverProtocol
    /\ serverProtocolMinor' = t.serverProtocolMinor
    /\ netchanType' = t.netchanType
    /\ incomingSequence' = t.incomingSequence
    /\ incomingAcknowledged' = t.incomingAcknowledged
    /\ incomingReliableAcknowledged' = t.incomingReliableAcknowledged
    /\ incomingReliableSequence' = t.incomingReliableSequence
    /\ outgoingSequence' = t.outgoingSequence
    /\ reliableSequence' = t.reliableSequence
    /\ lastReliableSequence' = t.lastReliableSequence
    /\ fragmentSequence' = t.fragmentSequence
    /\ fragmentBuffer' = t.fragmentBuffer
    /\ serverCount' = t.serverCount
    /\ spawnCount' = t.spawnCount
    /\ lastFrameNum' = t.lastFrameNum
    /\ entityTracker' = t.entityTracker
    /\ currentMapName' = t.currentMapName
    /\ configStrings' = t.configStrings
    /\ playerNames' = t.playerNames
    /\ hasSentNew' = t.hasSentNew
    /\ hasSentBegin' = t.hasSentBegin
    /\ precacheReceived' = t.precacheReceived
    /\ hasServerData' = t.hasServerData
    /\ respondedVersion' = t.respondedVersion
    /\ respondedAcToken' = t.respondedAcToken
    /\ sentConfigstrings' = t.sentConfigstrings
    /\ sentBaselines' = t.sentBaselines
    /\ pendingCommands' = t.pendingCommands
    /\ awaitingBegin' = t.awaitingBegin
    /\ heartbeatInterval' = t.heartbeatInterval
    /\ keepAliveInterval' = t.keepAliveInterval
    /\ monitorPollInterval' = t.monitorPollInterval
    /\ lastServerStatus' = t.lastServerStatus
    /\ timeouts' = t.timeouts
    /\ liveIntervals' = t.liveIntervals
    /\ socketCreated' = t.socketCreated
    /\ sent' = t.sent
    /\ emitted' = t.emitted
    /\ handed' = t.handed
    /\ didReset' = t.didReset
    /\ threw' = t.threw
    /\ rx' = t.rx
    /\ UNCHANGED queryVars

(***************************************************************************)
(* String literals of the source, as character codes                       *)
(***************************************************************************)
Lit_x7Fc_version == <<127, 99, 32, 118, 101, 114, 115, 105, 111, 110>>       \* "\x7Fc version"
Lit_c_version_var ==                                                         \* "c version $version"
    <<99, 32, 118, 101, 114, 115, 105, 111, 110, 32, 36, 118, 101, 114, 115, 105, 111, 110>>
Lit_x7Fc_actoken == <<127, 99, 32, 97, 99, 116, 111, 107, 101, 110>>         \* "\x7Fc actoken"
Lit_c_actoken_var ==                                                         \* "c actoken $actoken"
    <<99, 32, 97, 99, 116, 111, 107, 101, 110, 32, 36, 97, 99, 116, 111, 107, 101, 110>>
Lit_x7Fc_check == <<127, 99, 32, 99, 104, 101, 99, 107>>                     \* "\x7Fc check"
Lit_c_check == <<99, 32, 99, 104, 101, 99, 107>>                             \* "c check"
Lit_cmd_configstrings ==                                                     \* "cmd configstrings"
    <<99, 109, 100, 32, 99, 111, 110, 102, 105, 103, 115, 116, 114, 105, 110, 103, 115>>
Lit_cmd_baselines ==                                                         \* "cmd baselines"
    <<99, 109, 100, 32, 98, 97, 115, 101, 108, 105, 110, 101, 115>>
Lit_precache == <<112, 114, 101, 99, 97, 99, 104, 101>>                      \* "precache"
Lit_skins == <<115, 107, 105, 110, 115>>                                     \* "skins"
Lit_reconnect == <<114, 101, 99, 111, 110, 110, 101, 99, 116>>               \* "reconnect"
Lit_disconnect == <<100, 105, 115, 99, 111, 110, 110, 101, 99, 116>>         \* "disconnect"
Lit_version_reply_head == <<127, 99, 32, 118, 101, 114, 115, 105, 111, 110, 32>>  \* "\x7Fc version "
Lit_version_reply_tail == <<32, 49, 46, 48>>                                 \* " 1.0"
Lit_actoken_reply == <<127, 99, 32, 97, 99, 116, 111, 107, 101, 110, 32, 48>>     \* "\x7Fc actoken 0"
Lit_check_reply == <<127, 99, 32, 99, 104, 101, 99, 107, 32, 48>>            \* "\x7Fc check 0"
Lit_configstrings_sp ==                                                      \* "configstrings "
    <<99, 111, 110, 102, 105, 103, 115, 116, 114, 105, 110, 103, 115, 32>>
Lit_baselines_sp == <<98, 97, 115, 101, 108, 105, 110, 101, 115, 32>>        \* "baselines "
Lit_new == <<110, 101, 119>>                                                 \* "new"
Lit_begin_sp == <<98, 101, 103, 105, 110, 32>>                               \* "begin "
Lit_getchallenge == <<103, 101, 116, 99, 104, 97, 108, 108, 101, 110, 103, 101>>  \* "getchallenge"
Lit_status == <<115, 116, 97, 116, 117, 115>>                                \* "status"
Lit_connect_sp == <<99, 111, 110, 110, 101, 99, 116, 32>>                    \* "connect "
Lit_challenge == <<99, 104, 97, 108, 108, 101, 110, 103, 101>>               \* "challenge"
Lit_print == <<112, 114, 105, 110, 116>>                                     \* "print"
Lit_client_connect ==                                                        \* "client_connect"
    <<99, 108, 105, 101, 110, 116, 95, 99, 111, 110, 110, 101, 99, 116>>
Lit_ack == <<97, 99, 107>>                                                   \* "ack"
Lit_statusResponse ==                                                        \* "statusResponse"
    <<115, 116, 97, 116, 117, 115, 82, 101, 115, 112, 111, 110, 115, 101>>
Lit_info == <<105, 110, 102, 111>>                                           \* "info"
Lit_p_eq == <<112, 61>>                                                      \* "p="
Lit_nc == <<110, 99>>                                                        \* "nc"
Lit_name_key == <<92, 110, 97, 109, 101, 92>>                                \* "\\name\\"
Lit_userinfo_rest ==  \* "\\skin\\male/grunt\\rate\\25000\\msg\\1\\hand\\2\\fov\\90\\spectator\\1"
    <<92, 115, 107, 105, 110, 92, 109, 97, 108, 101, 47, 103, 114, 117, 110, 116,
      92, 114, 97, 116, 101, 92, 50, 53, 48, 48, 48, 92, 109, 115, 103, 92, 49,
      92, 104, 97, 110, 100, 92, 50, 92, 102, 111, 118, 92, 57, 48,
      92, 115, 112, 101, 99, 116, 97, 116, 111, 114, 92, 49>>
Lit_Quake_2_Server == <<81, 117, 97, 107, 101, 32, 50, 32, 83, 101, 114, 118, 101, 114>>  \* "Quake 2 Server"
Lit_unknown == <<117, 110, 107, 110, 111, 119, 110>>                         \* "unknown"
Lit_baseq2 == <<98, 97, 115, 101, 113, 50>>                                  \* "baseq2"
Lit_hostname == <<104, 111, 115, 116, 110, 97, 109, 101>>                    \* "hostname"
Lit_mapname == <<109, 97, 112, 110, 97, 109, 101>>                           \* "mapname"
Lit_maxclients == <<109, 97, 120, 99, 108, 105, 101, 110, 116, 115>>         \* "maxclients"
Lit_game == <<103, 97, 109, 101>>                                            \* "game"
Lit_user == <<117, 115, 101, 114>>                                           \* "user"
Lit_server_request ==                                                        \* "server_request"
    <<115, 101, 114, 118, 101, 114, 95, 114, 101, 113, 117, 101, 115, 116>>
Lit_server_disconnect ==                                                     \* "server_disconnect"
    <<115, 101, 114, 118, 101, 114, 95, 100, 105, 115, 99, 111, 110, 110, 101, 99, 116>>
Lit_max_reconnect_attempts ==                                                \* "max_reconnect_attempts"
    <<109, 97, 120, 95, 114, 101, 99, 111, 110, 110, 101, 99, 116, 95,
      97, 116, 116, 101, 109, 112, 116, 115>>
\* options.monitorInterval || 5000
monitorInterval == 5000

\* options.playerName || "Q2Client"
playerName == <<81, 50, 67, 108, 105, 101, 110, 116>>                        \* "Q2Client"

(***************************************************************************)
(* Effects on the outside: events, datagrams, timers                       *)
(*                                                                         *)
(* emitted, sent and handed hold what the current handler has emitted, put *)
(* on the socket and handed to the decoder; every handler starts them      *)
(* empty.  timeouts holds the pending setTimeout callbacks in the order of   *)
(* their registration.  A send on the null socket throws a TypeError out   *)
(* of the callback that made it (threw); nothing in the program catches    *)
(* it.                                                                     *)
(***************************************************************************)
\* emitEvent(type, data), with debug off
emitEvent(t, type, data) == [t EXCEPT !.emitted = Append(@, [type |-> type, data |-> data])]

\* this.socket.send(packet, this.serverPort, this.serverIp)
socketSend(t, packet) ==
    IF t.socket = "null" THEN [t EXCEPT !.threw = TRUE]
    ELSE [t EXCEPT !.sent = Append(@, packet)]

\* setTimeout(() => this.fn(arg), delay)
setTimeout(t, fn, delay, arg) ==
    [t EXCEPT !.timeouts = Append(@, [fn |-> fn, delay |-> delay, arg |-> arg])]

\* setInterval and clearInterval for the intervals of startHeartbeat:
\* liveIntervals counts, per kind, the intervals the event loop still runs
setInterval(t, kind) == [t EXCEPT !.liveIntervals[kind] = @ + 1]

\* clearInterval(handle), handle not null: the interval that handle names
clearInterval(t, kind) == [t EXCEPT !.liveIntervals[kind] = @ - 1]

\* if (this.heartbeatInterval) clearInterval(...), the same for keepAlive
ClearHeartbeat(t) ==
    LET t1 == IF t.heartbeatInterval # 0 THEN clearInterval(t, "heartbeat") ELSE t
    IN IF t1.keepAliveInterval # 0 THEN clearInterval(t1, "keepAlive") ELSE t1

\* Numbers that may be NaN (results of parseInt)
Num(n) == [nan |-> FALSE, n |-> n]
NaN == [nan |-> TRUE, n |-> 0]
Truthy(v) == ~v.nan /\ v.n # 0

UInt32LE(n) == <<n % 256, (n \div 256) % 256, (n \div 65536) % 256, (n \div 16777216) % 256>>
UInt16LE(n) == <<n % 256, (n \div 256) % 256>>

\* The four bytes writeUInt32LE writes for (x | 0x80000000) >>> 0 when rel, and
\* for x >>> 0 otherwise, x a sequence number (0 <= x < 2^31)
WordBytes(x, rel) ==
    LET b == UInt32LE(x) IN IF rel /\ b[4] < REL_BIT THEN [b EXCEPT ![4] = @ + REL_BIT] ELSE b

(***************************************************************************)
(* Packet construction                                                     *)
(***************************************************************************)
createOOBPacket(command) == <<255, 255, 255, 255>> \o command \o <<10>>

createConnectPacket(t, challenge) ==
    LET protocol == IF t.serverProtocol # 0 THEN t.serverProtocol ELSE VERSION_DEFAULT
        challengeId == IF challenge # 0 THEN challenge ELSE t.clientChallengeId
        userinfo == Lit_name_key \o playerName \o Lit_userinfo_rest
        head == Lit_connect_sp \o NumberToString(protocol) \o <<32>>
                    \o NumberToString(t.clientQport) \o <<32>>
                    \o NumberToString(challengeId) \o <<32, 34>> \o userinfo \o <<34>>
        maxmsglen == <<32>> \o NumberToString(1390)
        nctype == <<32>> \o NumberToString(t.netchanType)
        useZlib == <<32>> \o NumberToString(1)
        connectCommand ==
            IF protocol = VERSION_Q2PRO
            THEN head \o maxmsglen \o nctype \o useZlib \o <<32>> \o NumberToString(Q2PRO_CURRENT)
            ELSE IF protocol = VERSION_AQTION
            THEN head \o maxmsglen \o nctype \o useZlib \o <<32>> \o NumberToString(AQTION_CURRENT)
            ELSE IF protocol = VERSION_R1Q2
            THEN head \o maxmsglen \o <<32>> \o NumberToString(R1Q2_CURRENT)
            ELSE head
    IN createOOBPacket(connectCommand)

\* createSequencedPacket without this.outgoingSequence++
createSequencedPacket_NoIncrement(t, data, reliable) ==
    LET w1 == WordBytes(t.outgoingSequence, reliable)
        w2 == WordBytes(t.incomingSequence, t.incomingReliableSequence # 0)
        qport == IF t.serverProtocol >= VERSION_R1Q2
                 THEN <<t.clientQport % 256>>
                 ELSE UInt16LE(t.clientQport % 65536)
        t1 == IF reliable
              THEN [t EXCEPT !.reliableSequence = 1 - @,
                             !.lastReliableSequence = t.outgoingSequence]
              ELSE t
    IN [self |-> t1, packet |-> w1 \o w2 \o qport \o data]

\* createSequencedPacket(data, reliable): the client afterwards (self) and the
\* datagram (packet).  data = <<>> stands for null and for an empty buffer.
createSequencedPacket(t, data, reliable) ==
    LET w1 == WordBytes(t.outgoingSequence, reliable)
        w2 == WordBytes(t.incomingSequence, t.incomingReliableSequence # 0)
        qport == IF t.serverProtocol >= VERSION_R1Q2
                 THEN <<t.clientQport % 256>>
                 ELSE UInt16LE(t.clientQport % 65536)
        t1 == IF reliable
              THEN [t EXCEPT !.reliableSequence = 1 - @,
                             !.lastReliableSequence = t.outgoingSequence]
              ELSE t
    IN [self |-> [t1 EXCEPT !.outgoingSequence = @ + 1],
        packet |-> w1 \o w2 \o qport \o data]

sendSequencedResponse(t, data, reliable) ==
    IF ~t.isConnected \/ t.socket = "null" THEN t
    ELSE LET r == createSequencedPacket(t, data, reliable)
         IN socketSend(r.self, r.packet)

\* cmd.replace(/[\r\n]/g, "")
RECURSIVE RemoveCRLF(_)
RemoveCRLF(s) ==
    IF s = <<>> THEN <<>>
    ELSE (IF Head(s) \in {10, 13} THEN <<>> ELSE <<Head(s)>>) \o RemoveCRLF(Tail(s))

sendStringCmd(t, cmd) ==
    IF ~t.isConnected THEN t
    ELSE LET cleanCmd == trim(RemoveCRLF(cmd))
             cmdBuffer == <<CLC_STRINGCMD>> \o cleanCmd \o <<0>>
             r == createSequencedPacket(t, cmdBuffer, TRUE)
         IN socketSend(r.self, r.packet)

(***************************************************************************)
(* Connection handling                                                     *)
(***************************************************************************)
requestChallenge(t) ==
    LET t1 == [t EXCEPT !.connectionState = "challenging"]
        t2 == emitEvent(t1, "connection", [status |-> "connecting"])
    IN socketSend(t2, createOOBPacket(Lit_getchallenge))

\* connectToServer(challengeId), challengeId a number that may be NaN
connectToServer(t, challengeId) ==
    LET t1 == IF Truthy(challengeId) THEN [t EXCEPT !.clientChallengeId = challengeId.n] ELSE t
        t2 == [t1 EXCEPT !.connectionState = "connecting"]
    IN socketSend(t2, createConnectPacket(t2, t2.clientChallengeId))

sendNewCommand(t) ==
    IF t.hasSentNew THEN t
    ELSE sendStringCmd([t EXCEPT !.hasSentNew = TRUE], Lit_new)

sendBeginCommand(t) ==
    IF t.hasSentBegin THEN t
    ELSE LET beginCount == IF t.spawnCount # 0 THEN t.spawnCount ELSE t.serverCount
             t1 == sendStringCmd([t EXCEPT !.hasSentBegin = TRUE],
                                 Lit_begin_sp \o NumberToString(beginCount))
             t2 == [t1 EXCEPT !.connectionState = "spawned"]
         IN emitEvent(t2, "connection", [status |-> "spawned"])

\* startHeartbeat without the two clearInterval calls at its start
startHeartbeat_NoClear(t) ==
    [setInterval(setInterval(t, "heartbeat"), "keepAlive")
        EXCEPT !.heartbeatInterval = IF t.connectionState = "spawned" THEN 100 ELSE 300,
               !.keepAliveInterval = 10000]

\* startHeartbeat: both intervals are replaced; the heartbeat period is chosen
\* from the connection state at this moment.  0 stands for no interval.
startHeartbeat(t) ==
    [setInterval(setInterval(ClearHeartbeat(t), "heartbeat"), "keepAlive")
        EXCEPT !.heartbeatInterval = IF t.connectionState = "spawned" THEN 100 ELSE 300,
               !.keepAliveInterval = 10000]

\* The heartbeat interval's callback
heartbeatTick(t) ==
    IF ~t.isConnected THEN t
    ELSE IF t.connectionState = "spawned" THEN sendSequencedResponse(t, <<CLC_NOP>>, FALSE)
    ELSE sendSequencedResponse(t, <<>>, FALSE)

\* The keep-alive interval's callback
keepAliveTick(t) ==
    IF t.isConnected THEN sendSequencedResponse(t, <<CLC_NOP>>, FALSE) ELSE t

resetConnectionState(t) ==
    [t EXCEPT !.hasSentNew = FALSE, !.hasSentBegin = FALSE, !.precacheReceived = FALSE,
              !.hasServerData = FALSE,
              !.incomingSequence = 0, !.incomingAcknowledged = 0,
              !.incomingReliableAcknowledged = 0, !.incomingReliableSequence = 0,
              !.outgoingSequence = 1, !.reliableSequence = 0, !.lastReliableSequence = 0,
              !.lastFrameNum = -1, !.configStrings = <<>>, !.playerNames = <<>>,
              !.entityTracker = EmptyTracker,
              !.respondedVersion = FALSE, !.respondedAcToken = FALSE,
              !.sentConfigstrings = FALSE, !.sentBaselines = FALSE,
              !.currentMapName = <<>>,
              !.pendingCommands = <<>>, !.awaitingBegin = FALSE,
              !.didReset = TRUE]

\* Math.min(5000 * attempts, 30000)
ReconnectDelay(attempts) == IF 5000 * attempts < 30000 THEN 5000 * attempts ELSE 30000

handleDisconnect(t, reason) ==
    LET t1 == [ClearHeartbeat(t) EXCEPT !.isConnected = FALSE,
                                        !.connectionState = "disconnected",
                                        !.heartbeatInterval = 0, !.keepAliveInterval = 0]
    IN IF t1.reconnectAttempts < t1.maxReconnectAttempts
       THEN LET t2 == [t1 EXCEPT !.reconnectAttempts = @ + 1]
                delay == ReconnectDelay(t2.reconnectAttempts)
                t3 == emitEvent(t2, "connection",
                          [status |-> "reconnecting", reason |-> reason,
                           attempt |-> t2.reconnectAttempts,
                           maxAttempts |-> t2.maxReconnectAttempts, delay |-> delay])
            IN setTimeout(resetConnectionState(t3), "requestChallenge", delay, NaN)
       ELSE emitEvent(t1, "connection",
                [status |-> "disconnected", reason |-> Lit_max_reconnect_attempts])

\* this.socket.close(); this.socket = null.  socket.send resolves the address
\* asynchronously and gives the datagram up when the socket was closed in the
\* meantime, so a datagram handed to send in the tick of the close is never
\* transmitted: sent holds what goes on the wire.
closeSocket(t) == [t EXCEPT !.sent = <<>>, !.socket = "null"]

cleanup(t) ==
    LET t1 == [ClearHeartbeat(t) EXCEPT !.heartbeatInterval = 0, !.keepAliveInterval = 0,
                                        !.monitorPollInterval = 0]
        t2 == IF t1.isConnected /\ t1.socket # "null"
              THEN socketSend(t1, createOOBPacket(Lit_disconnect)) ELSE t1
        t3 == IF t2.socket # "null" THEN closeSocket(t2) ELSE t2
    IN [t3 EXCEPT !.isConnected = FALSE, !.connectionState = "disconnected"]

disconnect(t) ==
    emitEvent(cleanup(t), "connection", [status |-> "disconnected", reason |-> Lit_user])

(***************************************************************************)
(* Stufftext and the pending-command queue                                 *)
(***************************************************************************)
\* while (pendingCommands.length > 0) sendStringCmd(pendingCommands.shift())
RECURSIVE DrainPending(_)
DrainPending(t) ==
    IF t.pendingCommands = <<>> THEN t
    ELSE DrainPending(sendStringCmd([t EXCEPT !.pendingCommands = Tail(@)],
                                    Head(t.pendingCommands)))

processPendingCommands(t) ==
    IF t.pendingCommands = <<>> /\ ~t.awaitingBegin THEN t
    ELSE LET t1 == DrainPending(t)
         IN IF t1.awaitingBegin /\ ~t1.hasSentBegin
            THEN setTimeout([t1 EXCEPT !.awaitingBegin = FALSE], "sendBeginCommand", 500, NaN)
            ELSE t1

\* cmd.match(/<word>\s*(\d*)/)[1] for a cmd that starts with <word>: the digits
\* that follow the word and any white space; "0" when there are none.
OffsetAfter(cmd, word) ==
    LET rest == substring(cmd, Len(word))
        digits == TakeDigits(substring(rest, Len(TakeSpaces(rest))))
    IN IF digits # <<>> THEN digits ELSE <<48>>

\* cmd.match(/precache\s+(\d+)/): the capture of the leftmost match, as a
\* one-element sequence, or <<>> when there is no match.
PrecacheMatchAt(cmd, i) ==
    /\ MatchAt(cmd, Lit_precache, i)
    /\ LET rest == substring(cmd, i - 1 + Len(Lit_precache))
           spaces == TakeSpaces(rest)
       IN spaces # <<>> /\ TakeDigits(substring(rest, Len(spaces))) # <<>>

PrecacheMatch(cmd) ==
    LET hits == {i \in 1..Len(cmd) : PrecacheMatchAt(cmd, i)}
    IN IF hits = {} THEN <<>>
       ELSE LET i == CHOOSE k \in hits : \A j \in hits : k <= j
                rest == substring(cmd, i - 1 + Len(Lit_precache))
            IN <<TakeDigits(substring(rest, Len(TakeSpaces(rest))))>>

\* The precache and skins branches taking the non-passive path in any mode
AfterPrecache_Active(t) == [t EXCEPT !.awaitingBegin = TRUE]

\* The precache and skins branches after spawnCount is set
AfterPrecache(t) ==
    IF t.passiveMode
    THEN emitEvent([t EXCEPT !.connectionState = "spawned"], "connection",
                   [status |-> "spawned", passive |-> TRUE])
    ELSE [t EXCEPT !.awaitingBegin = TRUE]

\* One iteration of the loop over the lines of a stufftext: the client
\* afterwards and whether handleStufftext returned from inside the loop.
StuffLine(t, line) ==
    LET cmd == trim(line)
        Continue(u) == [self |-> u, returned |-> FALSE]
    IN
    IF cmd = <<>> THEN Continue(t)
    ELSE IF includes(cmd, Lit_x7Fc_version) \/ includes(cmd, Lit_c_version_var) THEN
        Continue(IF ~t.respondedVersion
                 THEN [t EXCEPT !.respondedVersion = TRUE,
                                !.pendingCommands = Append(@,
                                    Lit_version_reply_head \o playerName \o Lit_version_reply_tail)]
                 ELSE t)
    ELSE IF includes(cmd, Lit_x7Fc_actoken) \/ includes(cmd, Lit_c_actoken_var) THEN
        Continue(IF ~t.respondedAcToken
                 THEN [t EXCEPT !.respondedAcToken = TRUE,
                                !.pendingCommands = Append(@, Lit_actoken_reply)]
                 ELSE t)
    ELSE IF includes(cmd, Lit_x7Fc_check) \/ includes(cmd, Lit_c_check) THEN
        Continue([t EXCEPT !.pendingCommands = Append(@, Lit_check_reply)])
    ELSE IF startsWith(cmd, Lit_cmd_configstrings) THEN
        Continue(IF ~t.sentConfigstrings
                 THEN [t EXCEPT !.sentConfigstrings = TRUE,
                                !.pendingCommands = Append(@,
                                    Lit_configstrings_sp \o OffsetAfter(cmd, Lit_cmd_configstrings))]
                 ELSE t)
    ELSE IF startsWith(cmd, Lit_cmd_baselines) THEN
        Continue(IF ~t.sentBaselines
                 THEN [t EXCEPT !.sentBaselines = TRUE,
                                !.pendingCommands = Append(@,
                                    Lit_baselines_sp \o OffsetAfter(cmd, Lit_cmd_baselines))]
                 ELSE t)
    ELSE IF startsWith(cmd, Lit_precache) /\ ~t.precacheReceived THEN
        LET match == PrecacheMatch(cmd)
        IN Continue(AfterPrecache(
               [t EXCEPT !.precacheReceived = TRUE,
                         !.spawnCount = IF match # <<>> THEN DigitsValue(match[1])
                                        ELSE t.serverCount]))
    ELSE IF cmd = Lit_skins /\ ~t.precacheReceived THEN
        Continue(AfterPrecache([t EXCEPT !.precacheReceived = TRUE,
                                         !.spawnCount = t.serverCount]))
    ELSE IF startsWith(cmd, Lit_reconnect) THEN
        [self |-> setTimeout(
                      resetConnectionState(
                          emitEvent(t, "connection",
                              [status |-> "reconnecting", reason |-> Lit_server_request])),
                      "requestChallenge", 500, NaN),
         returned |-> TRUE]
    ELSE IF cmd = Lit_disconnect THEN
        [self |-> handleDisconnect(t, Lit_server_request), returned |-> TRUE]
    ELSE Continue(t)

RECURSIVE StuffLines(_, _)
StuffLines(t, lines) ==
    IF lines = <<>> THEN [self |-> t, returned |-> FALSE]
    ELSE LET r == StuffLine(t, Head(lines))
         IN IF r.returned THEN r ELSE StuffLines(r.self, Tail(lines))

handleStufftext(t, text) ==
    LET r == StuffLines(t, split(text, 10))
    IN IF r.returned THEN r.self ELSE processPendingCommands(r.self)

(***************************************************************************)
(* Datagram parsing                                                        *)
(***************************************************************************)
\* The value of a hexadecimal digit character, -1 for any other character
HexDigit(c) ==
    IF c >= 48 /\ c <= 57 THEN c - 48
    ELSE IF c >= 65 /\ c <= 70 THEN c - 55
    ELSE IF c >= 97 /\ c <= 102 THEN c - 87
    ELSE 0 - 1

RECURSIVE TakeHexDigits(_)
TakeHexDigits(s) ==
    IF s # <<>> /\ HexDigit(Head(s)) >= 0 THEN <<Head(s)>> \o TakeHexDigits(Tail(s)) ELSE <<>>

RECURSIVE HexDigitsValue(_)
HexDigitsValue(ds) ==
    IF ds = <<>> THEN 0
    ELSE HexDigitsValue(SubSeq(ds, 1, Len(ds) - 1)) * 16 + HexDigit(ds[Len(ds)])

\* parseInt(s, 10): leading white space, a sign, then the decimal digits
parseIntRadix10(s) ==
    LET s1 == trimStart(s)
        signed == s1 # <<>> /\ Head(s1) \in {43, 45}
        digits == TakeDigits(IF signed THEN Tail(s1) ELSE s1)
    IN IF digits = <<>> THEN NaN
       ELSE Num(IF signed /\ Head(s1) = 45 THEN 0 - DigitsValue(digits) ELSE DigitsValue(digits))

\* parseInt(s) without a radix: leading white space, a sign, then a 0x or 0X
\* prefix makes the digits hexadecimal; no digit at all gives NaN
parseInt(s) ==
    LET s1 == trimStart(s)
        signed == s1 # <<>> /\ Head(s1) \in {43, 45}
        body == IF signed THEN Tail(s1) ELSE s1
        hex == Len(body) >= 2 /\ body[1] = 48 /\ body[2] \in {88, 120}
        digits == IF hex THEN TakeHexDigits(substring(body, 2)) ELSE TakeDigits(body)
        value == IF hex THEN HexDigitsValue(digits) ELSE DigitsValue(digits)
    IN IF digits = <<>> THEN NaN
       ELSE Num(IF signed /\ Head(s1) = 45 THEN 0 - value ELSE value)

\* s.split(/\s+/)
RECURSIVE SplitWsFrom(_, _)
SplitWsFrom(s, cur) ==
    IF s = <<>> THEN <<cur>>
    ELSE IF IsSpace(Head(s)) THEN <<cur>> \o SplitWsFrom(trimStart(s), <<>>)
    ELSE SplitWsFrom(Tail(s), Append(cur, Head(s)))

SplitWs(s) == SplitWsFrom(s, <<>>)

\* parts.map((p) => parseInt(p))
MapParseInt(parts) == [i \in 1..Len(parts) |-> parseInt(parts[i])]

\* The supportedProtocols of a challenge line: the list of the last p= part
RECURSIVE SupportedProtocols(_, _, _)
SupportedProtocols(parts, i, acc) ==
    IF i > Len(parts) THEN acc
    ELSE SupportedProtocols(parts, i + 1,
            IF startsWith(parts[i], Lit_p_eq)
            THEN MapParseInt(split(substring(parts[i], 2), 44))
            ELSE acc)

\* The params of a client_connect line: key=value parts with both non-empty
RECURSIVE ConnectParams(_, _, _)
ConnectParams(parts, i, acc) ==
    IF i > Len(parts) THEN acc
    ELSE LET kv == split(parts[i], 61)
         IN ConnectParams(parts, i + 1,
                IF Len(kv) >= 2 /\ kv[1] # <<>> /\ kv[2] # <<>>
                THEN SetProperty(acc, kv[1], kv[2])
                ELSE acc)

parseSequencedPacket(buffer) ==
    IF Len(buffer) < 8 THEN [type |-> "sequenced", error |-> TRUE]
    ELSE
    LET sequenceHi == ByteAt(buffer, 3)
        ackHi == ByteAt(buffer, 7)
        fragmented == (sequenceHi \div FRG_BIT) % 2 = 1
        hasFragHeader == fragmented /\ Len(buffer) >= 10
        fragHeader == IF hasFragHeader THEN readUInt16LE(buffer, 8) ELSE 0
        dataOffset == IF hasFragHeader THEN 10 ELSE 8
        data == slice(buffer, dataOffset, Len(buffer))
    IN [type |-> "sequenced", error |-> FALSE,
        sequence |-> Low24(buffer, 0) + 16777216 * (sequenceHi % (NEW_MASK + 1)),
        reliable |-> (sequenceHi \div REL_BIT) % 2 = 1,
        fragmented |-> fragmented,
        fragmentOffset |-> fragHeader % 32768,
        moreFragments |-> (fragHeader \div 32768) % 2 = 1,
        ack |-> Low24(buffer, 4) + 16777216 * (ackHi % (NEW_MASK + 1)),
        reliableAck |-> (ackHi \div REL_BIT) % 2 = 1,
        hasData |-> data # <<>>,
        data |-> data]

parseOOBPacket(buffer) ==
    IF ~(Len(buffer) >= 4 /\ SubSeq(buffer, 1, 4) = <<255, 255, 255, 255>>)
    THEN parseSequencedPacket(buffer)
    ELSE
    LET content == slice(buffer, 4, Len(buffer))
        lines == split(content, 10)
        firstLine == trim(lines[1])
        parts == SplitWs(firstLine)
    IN
    IF startsWith(firstLine, Lit_challenge) THEN
        [type |-> "challenge",
         challengeId |-> IF Len(parts) >= 2 THEN parseInt(parts[2]) ELSE NaN,
         supportedProtocols |-> SupportedProtocols(parts, 3, <<>>)]
    ELSE IF startsWith(firstLine, Lit_print) THEN
        [type |-> "print", message |-> cleanQuakeString(trim(substring(content, 6)))]
    ELSE IF startsWith(firstLine, Lit_client_connect) THEN
        [type |-> "client_connect", params |-> ConnectParams(parts, 2, <<>>)]
    ELSE IF startsWith(firstLine, Lit_disconnect) THEN
        [type |-> "disconnect", reason |-> trim(substring(content, 10))]
    ELSE IF firstLine = Lit_ack THEN [type |-> "ack"]
    ELSE IF startsWith(firstLine, Lit_statusResponse) THEN
        [type |-> "statusResponse", content |-> content]
    ELSE IF startsWith(firstLine, Lit_info) THEN [type |-> "info", content |-> content]
    ELSE [type |-> "unknown_oob", raw |-> content]

(***************************************************************************)
(* Status responses (monitor mode)                                         *)
(***************************************************************************)
\* parts.filter((p) => p)
RECURSIVE NonEmpty(_)
NonEmpty(parts) ==
    IF parts = <<>> THEN <<>>
    ELSE (IF Head(parts) # <<>> THEN <<Head(parts)>> ELSE <<>>) \o NonEmpty(Tail(parts))

\* for (i = 0; i < parts.length - 1; i += 2) info[parts[i]] = parts[i + 1]
RECURSIVE InfoPairs(_, _)
InfoPairs(parts, acc) ==
    IF Len(parts) < 2 THEN acc
    ELSE InfoPairs(SubSeq(parts, 3, Len(parts)), SetProperty(acc, parts[1], parts[2]))

\* playerLine.match(/^(-?\d+)\s+(\d+)\s+"(.+)"$/): <<player>> or <<>>
ParsePlayerLine(playerLine) ==
    LET neg == playerLine # <<>> /\ Head(playerLine) = 45
        Quoted(score, ping, name) ==
            IF \A i \in 1..Len(name) : name[i] \notin {10, 13}
            THEN <<[score |-> IF neg THEN 0 - DigitsValue(score) ELSE DigitsValue(score),
                    ping |-> DigitsValue(ping),
                    name |-> cleanQuakeString(name)]>>
            ELSE <<>>
        AfterSpaces2(score, ping, s5) ==
            IF Len(s5) >= 3 /\ s5[1] = 34 /\ s5[Len(s5)] = 34
            THEN Quoted(score, ping, SubSeq(s5, 2, Len(s5) - 1))
            ELSE <<>>
        Spaces2(score, ping, s4, sp2) ==
            IF sp2 # <<>> THEN AfterSpaces2(score, ping, substring(s4, Len(sp2))) ELSE <<>>
        AfterPing(score, s3, ping) ==
            IF ping # <<>>
            THEN LET AtSpaces2(s4) == Spaces2(score, ping, s4, TakeSpaces(s4))
                 IN AtSpaces2(substring(s3, Len(ping)))
            ELSE <<>>
        Spaces1(score, s2, sp1) ==
            IF sp1 # <<>>
            THEN LET AtPing(s3) == AfterPing(score, s3, TakeDigits(s3))
                 IN AtPing(substring(s2, Len(sp1)))
            ELSE <<>>
        AfterScore(s1, score) ==
            IF score # <<>>
            THEN LET AtSpaces1(s2) == Spaces1(score, s2, TakeSpaces(s2))
                 IN AtSpaces1(substring(s1, Len(score)))
            ELSE <<>>
        AtScore(s1) == AfterScore(s1, TakeDigits(s1))
    IN AtScore(IF neg THEN Tail(playerLine) ELSE playerLine)

RECURSIVE StatusPlayers(_, _)
StatusPlayers(lines, i) ==
    IF i > Len(lines) THEN <<>>
    ELSE LET Player(playerLine) ==
                 IF playerLine = <<>> THEN <<>> ELSE ParsePlayerLine(playerLine)
         IN Player(trim(lines[i])) \o StatusPlayers(lines, i + 1)

parseStatusResponse(content) ==
    LET lines == split(content, 10)
    IN [info |-> IF Len(lines) >= 2 THEN InfoPairs(NonEmpty(split(lines[2], 92)), <<>>)
                 ELSE <<>>,
        players |-> StatusPlayers(lines, 3)]

\* info[key], with <<>> for undefined (a stored value is never empty)
InfoGet(info, key) == IF key \in DOMAIN info THEN info[key] ELSE <<>>

\* The name set left empty
PlayerNameSet_Empty(players) == {}

PlayerNameSet(players) == {players[i].name : i \in 1..Len(players)}

\* The player_join events of handleStatusResponse, in the order of the new list
RECURSIVE EmitJoins(_, _, _)
EmitJoins(t, players, oldPlayers) ==
    IF players = <<>> THEN t
    ELSE EmitJoins(
            IF Head(players).name \notin oldPlayers
            THEN emitEvent(t, "server_info",
                     [event |-> "player_join", name |-> Head(players).name,
                      ping |-> Head(players).ping])
            ELSE t,
            Tail(players), oldPlayers)

\* The player_leave events, in the order of the old list
RECURSIVE EmitLeaves(_, _, _)
EmitLeaves(t, players, newPlayers) ==
    IF players = <<>> THEN t
    ELSE EmitLeaves(
            IF Head(players).name \notin newPlayers
            THEN emitEvent(t, "server_info",
                     [event |-> "player_leave", name |-> Head(players).name])
            ELSE t,
            Tail(players), newPlayers)

\* handleStatusResponse when lastServerStatus (last) is not null
StatusChanges(t, status, last, mapname) ==
    LET MapChanged(t2) ==
            IF mapname # <<>> /\ InfoGet(last.info, Lit_mapname) # mapname
            THEN emitEvent(t2, "server_info",
                     [event |-> "map_change",
                      previousMap |-> InfoGet(last.info, Lit_mapname),
                      map |-> mapname])
            ELSE t2
        Leaves(t1) == EmitLeaves(t1, last.players, PlayerNameSet(status.players))
    IN MapChanged(Leaves(EmitJoins(t, status.players, PlayerNameSet(last.players))))

\* handleStatusResponse when lastServerStatus is null
FirstStatus(t, status, hostname, mapname, maxclients, game) ==
    emitEvent(t, "server_info",
        [event |-> "status",
         hostname |-> cleanQuakeString(
             IF hostname # <<>> THEN hostname ELSE Lit_Quake_2_Server),
         map |-> IF mapname # <<>> THEN mapname ELSE Lit_unknown,
         players |-> Len(status.players),
         maxPlayers |-> IF Truthy(maxclients) THEN maxclients.n ELSE 0,
         gameDir |-> IF game # <<>> THEN game ELSE Lit_baseq2,
         playerList |-> status.players])

\* handleStatusResponse after parseStatusResponse.  lastServerStatus is <<>>
\* for null and <<status>> otherwise.
OnStatus(t, status) ==
    [(IF t.lastServerStatus # <<>>
      THEN StatusChanges(t, status, t.lastServerStatus[1],
                         InfoGet(status.info, Lit_mapname))
      ELSE FirstStatus(t, status, InfoGet(status.info, Lit_hostname),
                       InfoGet(status.info, Lit_mapname),
                       parseInt(InfoGet(status.info, Lit_maxclients)),
                       InfoGet(status.info, Lit_game)))
     EXCEPT !.lastServerStatus = <<status>>]

handleStatusResponse(t, content) == OnStatus(t, parseStatusResponse(content))

sendStatusQuery(t) == socketSend(t, createOOBPacket(Lit_status))

\* handleMonitorPacket for a datagram with the OOB prefix
MonitorContent(t, content, lines, firstLine) ==
    IF startsWith(firstLine, Lit_statusResponse)
       \/ (startsWith(firstLine, Lit_print) /\ Len(lines) >= 2
               /\ startsWith(lines[2], <<92>>))
    THEN handleStatusResponse(t,
             IF startsWith(firstLine, Lit_statusResponse) THEN content
             ELSE Lit_statusResponse \o <<10>> \o join(Tail(lines), <<10>>))
    ELSE IF startsWith(firstLine, Lit_print)
    THEN LET Message(message) ==
                 IF trim(message) # <<>>
                 THEN emitEvent(t, "console_message",
                          [level |-> "SERVER", text |-> message])
                 ELSE t
         IN Message(cleanQuakeString(substring(content, 6)))
    ELSE t

handleMonitorPacket(t, buffer) ==
    IF ~(Len(buffer) >= 4 /\ SubSeq(buffer, 1, 4) = <<255, 255, 255, 255>>) THEN t
    ELSE LET Lines(content, lines) == MonitorContent(t, content, lines, trim(lines[1]))
             Content(content) == Lines(content, split(content, 10))
         IN Content(slice(buffer, 4, Len(buffer)))

startMonitorMode(t) ==
    LET t1 == emitEvent(t, "connection", [status |-> "monitoring"])
        t2 == sendStatusQuery(t1)
    IN [t2 EXCEPT !.monitorPollInterval = monitorInterval]

(***************************************************************************)
(* handleServerPacket                                                      *)
(***************************************************************************)
\* PRINT_LEVELS[level] || "MSG"
PrintLevelName(level) ==
    CASE level = 0 -> "LOW" [] level = 1 -> "MEDIUM" [] level = 2 -> "HIGH"
      [] level = 3 -> "CHAT" [] OTHER -> "MSG"

\* The challenge branch taking the first supported protocol of the list
SelectProtocol_FirstListed(t, supportedProtocols) ==
    LET known == {i \in 1..Len(supportedProtocols) :
                     supportedProtocols[i] \in {Num(VERSION_AQTION), Num(VERSION_Q2PRO),
                                                Num(VERSION_R1Q2), Num(VERSION_DEFAULT)}}
    IN IF known = {} THEN t.serverProtocol
       ELSE supportedProtocols[CHOOSE i \in known : \A k \in known : i <= k].n

\* The challenge case: the protocol the client selects
SelectProtocol(t, supportedProtocols) ==
    LET Has(p) == \E i \in 1..Len(supportedProtocols) : supportedProtocols[i] = Num(p)
    IN IF Has(VERSION_AQTION) THEN VERSION_AQTION
       ELSE IF Has(VERSION_Q2PRO) THEN VERSION_Q2PRO
       ELSE IF Has(VERSION_R1Q2) THEN VERSION_R1Q2
       ELSE IF Has(VERSION_DEFAULT) THEN VERSION_DEFAULT
       ELSE t.serverProtocol

\* The map change without the deferred sendNewCommand and the tracker reset
MapChange_Keeping(t, m) ==
    LET t1 == emitEvent(t, "server_info",
                  [event |-> "map_change", previousMap |-> t.currentMapName,
                   map |-> m.mapName])
        t2 == [t1 EXCEPT !.currentMapName = m.mapName, !.serverCount = m.serverCount,
                         !.serverProtocol = m.protocol]
    IN sendSequencedResponse(t2, <<>>, FALSE)

\* case "serverdata" when the map name differs from the current one
MapChange(t, m) ==
    LET t1 == emitEvent(t, "server_info",
                  [event |-> "map_change", previousMap |-> t.currentMapName,
                   map |-> m.mapName])
        t2 == [t1 EXCEPT !.currentMapName = m.mapName, !.serverCount = m.serverCount,
                         !.serverProtocol = m.protocol,
                         !.hasSentNew = FALSE, !.hasSentBegin = FALSE,
                         !.hasServerData = FALSE, !.respondedVersion = FALSE,
                         !.respondedAcToken = FALSE, !.pendingCommands = <<>>,
                         !.awaitingBegin = FALSE, !.lastFrameNum = -1, !.spawnCount = 0,
                         !.configStrings = <<>>, !.entityTracker = EmptyTracker]
    IN sendSequencedResponse(setTimeout(t2, "sendNewCommand", 500, NaN), <<>>, FALSE)

\* case "configstring"
OnConfigString(t, m) ==
    LET t1 == [t EXCEPT !.configStrings = (m.index :> m.text) @@ @]
        playerNum == m.index - 1408
        name == split(m.text, 92)[1]
    IN IF m.index >= 1408 /\ m.index < 1664 /\ m.text # <<>>
       THEN IF name # <<>>
               /\ (playerNum \notin DOMAIN t1.playerNames \/ t1.playerNames[playerNum] # name)
            THEN emitEvent([t1 EXCEPT !.playerNames = (playerNum :> name) @@ @],
                     "server_info",
                     [event |-> "player_info", playerId |-> playerNum, name |-> name])
            ELSE t1
       ELSE IF m.index = 0 /\ m.text # <<>>
       THEN emitEvent(t1, "server_info", [event |-> "map_name", map |-> m.text])
       ELSE t1

\* One iteration of the loop over the decoded messages: the client afterwards
\* and whether handleServerPacket returned from inside the loop.
DispatchMessage(t, m) ==
    LET Continue(u) == [self |-> u, returned |-> FALSE]
        Return(u) == [self |-> u, returned |-> TRUE]
    IN
    CASE m.type = "serverdata" ->
            IF t.currentMapName # <<>> /\ t.currentMapName # m.mapName
            THEN Return(MapChange(t, m))
            ELSE Continue(
                    [emitEvent(t, "server_info",
                         [event |-> "connected", map |-> m.mapName,
                          gameDir |-> m.gameDir, protocol |-> m.protocol])
                     EXCEPT !.currentMapName = m.mapName, !.hasServerData = TRUE,
                            !.serverCount = m.serverCount, !.serverProtocol = m.protocol])
      [] m.type = "configstring" -> Continue(OnConfigString(t, m))
      [] m.type = "print" ->
            Continue(IF m.text # <<>>
                     THEN emitEvent(t, "console_message",
                              [level |-> PrintLevelName(m.level), text |-> m.text])
                     ELSE t)
      [] m.type = "centerprint" ->
            Continue(IF m.text # <<>>
                     THEN emitEvent(t, "console_message",
                              [level |-> "CENTER", text |-> m.text])
                     ELSE t)
      [] m.type = "stufftext" -> Continue(handleStufftext(t, m.text))
      [] m.type = "server_disconnect" -> Return(handleDisconnect(t, Lit_server_disconnect))
      [] m.type = "reconnect" ->
            Return(setTimeout(
                       resetConnectionState(
                           emitEvent(t, "connection", [status |-> "reconnecting"])),
                       "requestChallenge", 1000, NaN))
      [] OTHER -> Continue(t)

RECURSIVE DispatchMessages(_, _)
\* The loop goes on unless the handler returned
DispatchRest(r, msgs) ==
    IF r.returned THEN r ELSE DispatchMessages(r.self, msgs)

DispatchMessages(t, msgs) ==
    IF msgs = <<>> THEN [self |-> t, returned |-> FALSE]
    ELSE DispatchRest(DispatchMessage(t, Head(msgs)), Tail(msgs))

\* The duplicate test of case "sequenced"
IsDuplicate(t, parsed) ==
    parsed.sequence <= t.incomingSequence /\ t.incomingSequence > 0 /\ ~parsed.fragmented

\* HandleFragment with an out-of-order fragment emptying the buffer
HandleFragment_Discarding(t, parsed) ==
    LET t1 == IF t.fragmentSequence # parsed.sequence
              THEN [t EXCEPT !.fragmentSequence = parsed.sequence, !.fragmentBuffer = <<>>]
              ELSE t
    IN IF parsed.fragmentOffset # Len(t1.fragmentBuffer)
       THEN [self |-> [t1 EXCEPT !.fragmentBuffer = <<>>], accepted |-> FALSE, data |-> <<>>]
       ELSE LET t2 == [t1 EXCEPT !.fragmentBuffer = @ \o parsed.data]
            IN IF parsed.moreFragments
               THEN [self |-> t2, accepted |-> FALSE, data |-> <<>>]
               ELSE [self |-> [t2 EXCEPT !.fragmentBuffer = <<>>], accepted |-> TRUE,
                     data |-> t2.fragmentBuffer]

\* case "sequenced", after the duplicate test.  The fragment branch leaves
\* through accepted = FALSE when the handler returns without a payload.
HandleFragment(t, parsed) ==
    LET t1 == IF t.fragmentSequence # parsed.sequence
              THEN [t EXCEPT !.fragmentSequence = parsed.sequence, !.fragmentBuffer = <<>>]
              ELSE t
    IN IF parsed.fragmentOffset # Len(t1.fragmentBuffer)
       THEN [self |-> t1, accepted |-> FALSE, data |-> <<>>]
       ELSE LET t2 == [t1 EXCEPT !.fragmentBuffer = @ \o parsed.data]
            IN IF parsed.moreFragments
               THEN [self |-> t2, accepted |-> FALSE, data |-> <<>>]
               ELSE [self |-> [t2 EXCEPT !.fragmentBuffer = <<>>], accepted |-> TRUE,
                     data |-> t2.fragmentBuffer]

\* The empty response after the loop, unless the handler returned inside it
RespondUnlessReturned(r) ==
    IF r.returned THEN r.self ELSE sendSequencedResponse(r.self, <<>>, FALSE)

\* processServerData's result taken over, then the loop over its messages
DispatchParsed(t, data, p) ==
    RespondUnlessReturned(
        DispatchMessages([t EXCEPT !.handed = Append(@, data),
                                   !.serverProtocol = p.serverProtocol,
                                   !.serverProtocolMinor = p.serverProtocolMinor,
                                   !.lastFrameNum = p.lastFrameNum,
                                   !.entityTracker = p.entityTracker],
                         p.messages))

\* if (parsed.data.length > 0) ... else: the empty response
ProcessData(t, data) ==
    IF data # <<>>
    THEN DispatchParsed(t, data,
             processServerData(data, t.serverProtocol, t.serverProtocolMinor,
                               t.lastFrameNum, t.entityTracker))
    ELSE sendSequencedResponse(t, <<>>, FALSE)

\* case "sequenced" from this.incomingSequence = parsed.sequence on
AcceptSequenced(t, parsed, data) ==
    ProcessData([t EXCEPT !.incomingSequence = parsed.sequence,
                          !.incomingReliableSequence =
                              IF parsed.reliable THEN 1 - @ ELSE @],
                data)

\* The acknowledgement fields of the header taken over
Acknowledged(t, parsed) ==
    [t EXCEPT !.incomingAcknowledged = parsed.ack,
              !.incomingReliableAcknowledged = IF parsed.reliableAck THEN 1 ELSE 0]

\* The handler goes on with the payload, or has returned in the fragment branch
AcceptPayload(f, parsed) ==
    IF f.accepted THEN AcceptSequenced(f.self, parsed, f.data) ELSE f.self

HandleSequenced(t, parsed) ==
    IF parsed.error THEN t
    ELSE IF IsDuplicate(t, parsed) THEN t
    ELSE AcceptPayload(
             IF parsed.fragmented
             THEN HandleFragment(Acknowledged(t, parsed), parsed)
             ELSE [self |-> Acknowledged(t, parsed), accepted |-> TRUE,
                   data |-> parsed.data],
             parsed)

\* handleServerPacket after parseOOBPacket
HandleParsed(t, parsed) ==
    CASE parsed.type = "challenge" ->
            setTimeout(
                IF parsed.supportedProtocols # <<>>
                THEN [t EXCEPT !.serverProtocol = SelectProtocol(t, parsed.supportedProtocols)]
                ELSE t,
                "connectToServer", 100, parsed.challengeId)
      [] parsed.type = "client_connect" ->
            LET NetchanType(nc) == IF Truthy(nc) THEN nc.n ELSE 1
                t1 == IF Lit_nc \in DOMAIN parsed.params
                      THEN [t EXCEPT !.netchanType =
                                         NetchanType(parseInt(parsed.params[Lit_nc]))]
                      ELSE t
                t2 == [t1 EXCEPT !.isConnected = TRUE, !.connectionState = "connected",
                                 !.reconnectAttempts = 0]
                t3 == startHeartbeat(emitEvent(t2, "connection", [status |-> "connected"]))
            IN setTimeout(t3, "sendNewCommand", 200, NaN)
      [] parsed.type = "print" ->
            IF trim(parsed.message) # <<>>
            THEN emitEvent(t, "console_message",
                     [level |-> "SERVER", text |-> parsed.message])
            ELSE t
      [] parsed.type = "disconnect" -> handleDisconnect(t, parsed.reason)
      [] parsed.type = "statusResponse" -> handleStatusResponse(t, parsed.content)
      [] parsed.type = "sequenced" -> HandleSequenced(t, parsed)
      [] OTHER -> t

handleServerPacket(t, buffer) == HandleParsed(t, parseOOBPacket(buffer))

(***************************************************************************)
(* connect(): socket is "null", "binding" (created, bind callback pending) *)
(* or "bound".  A socket closed before it is bound never runs its bind     *)
(* callback.  socketCreated says that dgram.createSocket has run: from     *)
(* then on there is a socket carrying the error listener of this client,   *)
(* and a socket raises "error" after it was closed as well (a lookup that  *)
(* fails for a datagram handed to send before the close).                  *)
(***************************************************************************)
connect(t) ==
    LET t1 == IF t.socket # "null" THEN disconnect(t) ELSE t
    IN [t1 EXCEPT !.socket = "binding", !.socketCreated = TRUE]

\* The callback of socket.bind taking the handshake path in any mode
onBind_Handshake(t) == requestChallenge([t EXCEPT !.socket = "bound"])

\* The callback of socket.bind
onBind(t) ==
    LET t1 == [t EXCEPT !.socket = "bound"]
    IN IF t1.monitorMode THEN startMonitorMode(t1) ELSE requestChallenge(t1)

\* socket.on("error", (err) => ...)
onSocketError(t, err) ==
    cleanup(emitEvent(t, "connection", [status |-> "error", reason |-> err.message]))

(***************************************************************************)
(* Bounds of the model                                                     *)
(***************************************************************************)
\* Sequenced packets the client may send before the model stops it
MaxOutgoing == 5
\* Pending setTimeout callbacks, in all
MaxTimeouts == 2
\* Incoming sequence numbers run over 0..MaxSeq
MaxSeq == 2

\* The specifications follow a client as far as the bounds: of the steps the
\* handlers take, Within keeps those that end inside them.
Bounded ==
    /\ outgoingSequence <= MaxOutgoing + 1
    /\ Len(timeouts) <= MaxTimeouts

Within(A) == A /\ Bounded'

(***************************************************************************)
(* The state after construction                                            *)
(***************************************************************************)
\* Math.floor(Math.random() * 0x7fffffff) and Math.floor(Math.random() * 255),
\* Math.random() being in [0, 1): any integer of 0..2147483646 and of 0..254
ChallengeIdChoices == 0..(2147483647 - 1)
QportChoices == 0..(255 - 1)

\* new Q2Client(options): the fields the constructor leaves, the two draws
\* being any numbers of their ranges
Constructed(passive, monitor, maxAttempts) ==
    /\ passiveMode = passive
    /\ monitorMode = monitor
    /\ maxReconnectAttempts = maxAttempts
    /\ socket = "null"
    /\ isConnected = FALSE
    /\ connectionState = "disconnected"
    /\ reconnectAttempts = 0
    /\ clientChallengeId \in ChallengeIdChoices
    /\ clientQport \in QportChoices
    /\ serverProtocol = VERSION_DEFAULT
    /\ serverProtocolMinor = 0
    /\ netchanType = 1
    /\ incomingSequence = 0
    /\ incomingAcknowledged = 0
    /\ incomingReliableAcknowledged = 0
    /\ incomingReliableSequence = 0
    /\ outgoingSequence = 1
    /\ reliableSequence = 0
    /\ lastReliableSequence = 0
    /\ fragmentSequence = 0
    /\ fragmentBuffer = <<>>
    /\ serverCount = 0
    /\ spawnCount = 0
    /\ lastFrameNum = -1
    /\ entityTracker = EmptyTracker
    /\ currentMapName = <<>>
    /\ configStrings = <<>>
    /\ playerNames = <<>>
    /\ hasSentNew = FALSE
    /\ hasSentBegin = FALSE
    /\ precacheReceived = FALSE
    /\ hasServerData = FALSE
    /\ respondedVersion = FALSE
    /\ respondedAcToken = FALSE
    /\ sentConfigstrings = FALSE
    /\ sentBaselines = FALSE
    /\ pendingCommands = <<>>
    /\ awaitingBegin = FALSE
    /\ heartbeatInterval = 0
    /\ keepAliveInterval = 0
    /\ monitorPollInterval = 0
    /\ lastServerStatus = <<>>
    /\ timeouts = <<>>
    /\ liveIntervals = [heartbeat |-> 0, keepAlive |-> 0]
    /\ socketCreated = FALSE
    /\ sent = <<>>
    /\ emitted = <<>>
    /\ handed = <<>>
    /\ didReset = FALSE
    /\ threw = FALSE
    /\ rx = [op |-> "constructor"]
    /\ NoQuery

\* The clients the specifications follow.  Of the draws <<clientChallengeId,
\* clientQport>> a specification starts from a few: the code prints the two
\* numbers in the connect string, puts the low byte of the qport in the header
\* of a sequenced packet, and falls back to the challenge id when the server's
\* is falsy, and does nothing else with them.  Draws is one pair inside the
\* ranges; DrawsWithEnds has both ends and the middle of both ranges as well.
Draws == {<<77, 5>>}
DrawsWithEnds == {<<c, q>> : c \in {0, 77, 1073741823, 2147483646}, q \in {0, 5, 127, 254}}

Drawn(draws) == \E d \in draws : clientChallengeId = d[1] /\ clientQport = d[2]

(***************************************************************************)
(* Steps: one per public method call, datagram, timer callback             *)
(*                                                                         *)
(* rx names the step just taken and its input.  After an uncaught          *)
(* exception (threw) the process is gone and nothing more happens.         *)
(***************************************************************************)
Start(input) ==
    [This EXCEPT !.sent = <<>>, !.emitted = <<>>, !.handed = <<>>, !.didReset = FALSE,
                 !.rx = input]

Connect ==
    /\ ~threw
    /\ Commit(connect(Start([op |-> "connect"])))

Disconnect ==
    /\ ~threw
    /\ Commit(disconnect(Start([op |-> "disconnect"])))

Bind ==
    /\ ~threw
    /\ socket = "binding"
    /\ Commit(onBind(Start([op |-> "bind"])))

\* The errors a socket raises, by their messages
Lit_bind_EADDRINUSE ==                                                       \* "bind EADDRINUSE 0.0.0.0"
    <<98, 105, 110, 100, 32, 69, 65, 68, 68, 82, 73, 78, 85, 83, 69, 32, 48, 46, 48, 46, 48, 46, 48>>
Lit_getaddrinfo_ENOTFOUND ==                                                 \* "getaddrinfo ENOTFOUND q2"
    <<103, 101, 116, 97, 100, 100, 114, 105, 110, 102, 111, 32, 69, 78, 79, 84, 70, 79, 85, 78, 68,
      32, 113, 50>>

SocketErrors == {[message |-> Lit_bind_EADDRINUSE], [message |-> Lit_getaddrinfo_ENOTFOUND]}

\* A socket of this client, the current one or one closed before, raises
\* "error": the listener acts on the client as it is now
SocketError ==
    /\ ~threw
    /\ socketCreated
    /\ \E err \in SocketErrors : Commit(onSocketError(Start([op |-> "error", err |-> err]), err))

\* A datagram arrives on the bound socket.
Receive(buffer) ==
    /\ ~threw
    /\ socket = "bound"
    /\ LET t == Start([op |-> "receive", buffer |-> buffer])
       IN Commit(IF monitorMode THEN handleMonitorPacket(t, buffer)
                 ELSE handleServerPacket(t, buffer))

\* s without its i-th element
RemoveAt(s, i) == SubSeq(s, 1, i - 1) \o SubSeq(s, i + 1, Len(s))

\* A pending setTimeout callback runs.  Node keeps the timers of one duration
\* in one list, in the order of their registration, and takes the lists in the
\* order in which their first timers fall due; when the event loop was held
\* up, it runs every timer of a list that is due before it turns to the next
\* list.  So a callback runs when no pending callback registered before it has
\* a delay that is not longer, and also directly after a callback of its own
\* list (a timeout of the same delay, or the tick of an interval of that
\* period) when it is the oldest pending callback of that list.  No callback
\* registers a timer, so every pending callback was registered before the
\* list was taken.  Apart from that the time between two steps is free.
RunTimeout(t, timer) ==
    CASE timer.fn = "requestChallenge" -> requestChallenge(t)
      [] timer.fn = "connectToServer" -> connectToServer(t, timer.arg)
      [] timer.fn = "sendNewCommand" -> sendNewCommand(t)
      [] timer.fn = "sendBeginCommand" -> sendBeginCommand(t)

Timeout ==
    /\ ~threw
    /\ \E i \in 1..Len(timeouts) :
          /\ LET msecs ==
                     CASE rx.op = "timeout" -> rx.timer.delay
                       [] rx.op = "heartbeat" -> heartbeatInterval
                       [] rx.op = "keepalive" -> keepAliveInterval
                       [] rx.op = "monitor_poll" -> monitorPollInterval
                       [] OTHER -> 0
             IN \/ \A j \in 1..(i - 1) : timeouts[j].delay > timeouts[i].delay
                \/ /\ msecs = timeouts[i].delay
                   /\ \A j \in 1..(i - 1) : timeouts[j].delay # timeouts[i].delay
          /\ Commit(RunTimeout(
                 [Start([op |-> "timeout", timer |-> timeouts[i]])
                     EXCEPT !.timeouts = RemoveAt(@, i)],
                 timeouts[i]))

HeartbeatTick ==
    /\ ~threw
    /\ heartbeatInterval # 0
    /\ Commit(heartbeatTick(Start([op |-> "heartbeat"])))

KeepAliveTick ==
    /\ ~threw
    /\ keepAliveInterval # 0
    /\ Commit(keepAliveTick(Start([op |-> "keepalive"])))

MonitorTick ==
    /\ ~threw
    /\ monitorPollInterval # 0
    /\ Commit(sendStatusQuery(Start([op |-> "monitor_poll"])))

(***************************************************************************)
(* Datagrams the server side may send (the inputs of Receive)              *)
(***************************************************************************)
\* The sequence word and the ack word of a datagram, as bytes
SeqWord(sequence, reliable, fragmented) ==
    LET b == UInt32LE(sequence)
    IN [b EXCEPT ![4] = @ + (IF reliable THEN REL_BIT ELSE 0)
                            + (IF fragmented THEN FRG_BIT ELSE 0)]

AckWord(ack, reliableAck) == WordBytes(ack, reliableAck)

\* A sequenced datagram without fragment header
SequencedDatagram(sequence, reliable, ack, reliableAck, data) ==
    SeqWord(sequence, reliable, FALSE) \o AckWord(ack, reliableAck) \o data

\* One fragment of a fragmented message
FragmentDatagram(sequence, reliable, ack, reliableAck, offset, more, data) ==
    SeqWord(sequence, reliable, TRUE) \o AckWord(ack, reliableAck)
        \o UInt16LE(offset + (IF more THEN 32768 ELSE 0)) \o data

OOBDatagram(text) == <<255, 255, 255, 255>> \o text

SvcStufftext(text) == <<SVC_STUFFTEXT>> \o text \o <<0>>
SvcPrint(level, text) == <<SVC_PRINT, level>> \o text \o <<0>>
SvcConfigString(index, text) == <<SVC_CONFIGSTRING>> \o UInt16LE(index) \o text \o <<0>>
\* A vanilla SERVERDATA record (protocol 34 has no tail), attract loop 0
SvcServerData(protocol, count, gameDir, clientNum, mapName) ==
    <<SVC_SERVERDATA>> \o UInt32LE(protocol) \o UInt32LE(count) \o <<0>>
        \o gameDir \o <<0>> \o UInt16LE(clientNum) \o mapName \o <<0>>

\* "challenge 12345" and "client_connect"
ChallengeDatagram == OOBDatagram(Lit_challenge \o <<32, 49, 50, 51, 52, 53, 10>>)
ClientConnectDatagram == OOBDatagram(Lit_client_connect \o <<10>>)
DisconnectDatagram == OOBDatagram(Lit_disconnect \o <<10>>)

(***************************************************************************)
(* Specification Netchan: the receive path under every header              *)
(*                                                                         *)
(* connect() is called on an idle client, the server answers the handshake *)
(* and then sends sequenced datagrams with any sequence number in          *)
(* 0..MaxSeq and any reliable bit, fragmented or not.  The message         *)
(* "print LOW a" is <<10, 0, 97, 0>>; it travels as two fragments of two   *)
(* bytes.  A message may also travel as a single fragment.  Unfragmented   *)
(* datagrams acknowledge (1, reliable), fragments (0, not reliable).       *)
(***************************************************************************)
\* offset, more fragments, data, reliable bits
FragmentChoices ==
    {<<0, TRUE, <<SVC_PRINT, 0>>, {FALSE}>>, <<2, FALSE, <<97, 0>>, {FALSE}>>,
     <<0, FALSE, <<SVC_NOP>>, BOOLEAN>>}

NetchanDatagrams ==
    {SequencedDatagram(s, r, 1, TRUE, <<SVC_NOP>>) : s \in 0..MaxSeq, r \in BOOLEAN}
    \cup UNION {{FragmentDatagram(s, r, 0, FALSE, f[1], f[2], f[3]) : r \in f[4]} :
                  s \in 0..MaxSeq, f \in FragmentChoices}

InitNetchan == Drawn(Draws) /\ Constructed(FALSE, FALSE, 5)

UserConnects == socket = "null" /\ Connect

ServerChallenges ==
    /\ connectionState = "challenging"
    /\ timeouts = <<>>
    /\ Receive(ChallengeDatagram)

ServerAccepts ==
    /\ connectionState = "connecting"
    /\ ~isConnected
    /\ Receive(ClientConnectDatagram)

ReceiveNetchan == isConnected /\ \E buffer \in NetchanDatagrams : Receive(buffer)

NextNetchan ==
    \/ Within(UserConnects)
    \/ Within(Bind)
    \/ Within(Timeout)
    \/ Within(ServerChallenges)
    \/ Within(ServerAccepts)
    \/ Within(ReceiveNetchan)

SpecNetchan == InitNetchan /\ [][NextNetchan]_vars

(***************************************************************************)
(* Properties                                                              *)
(*                                                                         *)
(* In a step, rx' is the step's input and the unprimed variables are the   *)
(* client before the step.                                                 *)
(***************************************************************************)
netchanState ==
    <<incomingSequence, incomingAcknowledged, incomingReliableAcknowledged,
      incomingReliableSequence, outgoingSequence, reliableSequence,
      lastReliableSequence, fragmentSequence, fragmentBuffer>>

gameState ==
    <<serverProtocol, serverProtocolMinor, serverCount, spawnCount, lastFrameNum,
      currentMapName, configStrings, playerNames, hasSentNew, hasSentBegin,
      precacheReceived, hasServerData, respondedVersion, respondedAcToken,
      sentConfigstrings, sentBaselines, pendingCommands, awaitingBegin>>

\* The step input r is a well-formed sequenced datagram
SequencedArrives(r) ==
    /\ r.op = "receive"
    /\ parseOOBPacket(r.buffer).type = "sequenced"
    /\ ~parseOOBPacket(r.buffer).error

\* C1: a sequenced packet that is not fragmented and whose sequence is at most
\* incomingSequence (0 included) changes no netchan or game state and is not
\* answered with a sequenced packet.
C1_DuplicateIsDropped ==
    [][(/\ SequencedArrives(rx')
        /\ ~parseOOBPacket(rx'.buffer).fragmented
        /\ parseOOBPacket(rx'.buffer).sequence <= incomingSequence)
       => (UNCHANGED netchanState /\ UNCHANGED gameState /\ sent' = <<>>)]_vars

\* C2: between two resets of the connection state incomingSequence never
\* decreases.
C2_IncomingSequenceNeverDecreases ==
    [][~didReset' => incomingSequence' >= incomingSequence]_vars

\* C3: an accepted reliable message toggles incomingReliableSequence, a
\* dropped packet leaves it alone, and the datagram just accepted, received
\* once more, does not toggle it again.
C3_ReliableTogglesOnce ==
    [][(SequencedArrives(rx') /\ ~didReset')
       => LET p == parseOOBPacket(rx'.buffer)
          IN /\ (handed' # <<>> /\ p.reliable)
                    => incomingReliableSequence' = 1 - incomingReliableSequence
             /\ handed' = <<>> => incomingReliableSequence' = incomingReliableSequence
             /\ (rx' = rx /\ handed # <<>> /\ p.reliable)
                    => incomingReliableSequence' = incomingReliableSequence]_vars

\* The step input r is a well-formed fragment
FragmentArrives(r) == SequencedArrives(r) /\ parseOOBPacket(r.buffer).fragmented

\* C4: a fragment that continues the reassembly in progress (same sequence,
\* offset equal to the length of fragmentBuffer) is appended, and the final
\* one hands the concatenation of the fragment payloads to the decoder; a
\* fragment of the sequence in progress with any other offset is dropped and
\* fragmentBuffer is left as it is; a fragment of another sequence discards
\* the reassembly in progress and is taken only at offset 0.
C4_Reassembly ==
    [][FragmentArrives(rx')
       => LET p == parseOOBPacket(rx'.buffer)
              inProgress == IF p.sequence = fragmentSequence THEN fragmentBuffer ELSE <<>>
          IN /\ fragmentSequence' = p.sequence
             /\ IF p.fragmentOffset # Len(inProgress)
                THEN /\ fragmentBuffer' = inProgress
                     /\ handed' = <<>>
                     /\ sent' = <<>>
                     /\ incomingSequence' = incomingSequence
                ELSE IF p.moreFragments
                THEN /\ fragmentBuffer' = inProgress \o p.data
                     /\ handed' = <<>>
                     /\ sent' = <<>>
                     /\ incomingSequence' = incomingSequence
                ELSE /\ fragmentBuffer' = <<>>
                     /\ handed' = <<inProgress \o p.data>>]_vars

\* C4 witness: the second fragment of "print LOW a" has arrived at offset 2 and
\* the decoder was handed both fragments' payloads, concatenated
C4_Reassembled ==
    /\ FragmentArrives(rx)
    /\ parseOOBPacket(rx.buffer).fragmentOffset = 2
    /\ handed = << <<SVC_PRINT, 0>> \o parseOOBPacket(rx.buffer).data >>
    /\ fragmentBuffer = <<>>

\* C4 as claimed: in-order fragments are concatenated, and any fragment whose
\* offset differs from the length of fragmentBuffer empties the buffer.
C4_OutOfOrderDiscards ==
    [][FragmentArrives(rx')
       => LET p == parseOOBPacket(rx'.buffer)
              inProgress == IF p.sequence = fragmentSequence THEN fragmentBuffer ELSE <<>>
          IN IF p.fragmentOffset # Len(inProgress)
             THEN fragmentBuffer' = <<>>
             ELSE IF p.moreFragments
             THEN fragmentBuffer' = inProgress \o p.data
             ELSE handed' = <<inProgress \o p.data>>]_vars

(***************************************************************************)
(* Specification Handshake: the handshake against a server that numbers    *)
(* its datagrams in order                                                  *)
(*                                                                         *)
(* Once the client is connected the server sends reliable datagrams        *)
(* numbered incomingSequence + 1 that carry SERVERDATA (server count 7,    *)
(* map "m"), stufftext "precache 0", "precache 5", "cmd configstrings 0"   *)
(* followed by "cmd baselines 0", or "reconnect".  It acknowledges either  *)
(* nothing or the client's first reliable packet.  The heartbeat and the   *)
(* keep-alive intervals tick at any time.                                  *)
(***************************************************************************)
AckChoices == {<<0, FALSE>>, <<1, TRUE>>}

ServerDataPayload == SvcServerData(VERSION_DEFAULT, 7, <<>>, 0, <<109>>)

\* stufftext "precache <n>\n"
PrecachePayload(n) == SvcStufftext(Lit_precache \o <<32>> \o NumberToString(n) \o <<10>>)

PrecacheCounts == {0, 5}

\* stufftext "cmd configstrings 0\ncmd baselines 0\n"
CommandsPayload ==
    SvcStufftext(Lit_cmd_configstrings \o <<32, 48, 10>> \o Lit_cmd_baselines \o <<32, 48, 10>>)

\* stufftext "reconnect\n"
ReconnectPayload == SvcStufftext(Lit_reconnect \o <<10>>)

HandshakePayloads ==
    {ServerDataPayload, CommandsPayload, ReconnectPayload}
    \cup {PrecachePayload(n) : n \in PrecacheCounts}

InitHandshake == Drawn(Draws) /\ Constructed(FALSE, FALSE, 5)

ReceiveHandshake ==
    /\ isConnected
    /\ incomingSequence <= MaxSeq
    /\ \E a \in AckChoices, d \in HandshakePayloads :
          Receive(SequencedDatagram(incomingSequence + 1, TRUE, a[1], a[2], d))

NextHandshake ==
    \/ Within(UserConnects)
    \/ Within(Bind)
    \/ Within(Timeout)
    \/ Within(ServerChallenges)
    \/ Within(ServerAccepts)
    \/ Within(ReceiveHandshake)
    \/ Within(HeartbeatTick)
    \/ Within(KeepAliveTick)

SpecHandshake == InitHandshake /\ [][NextHandshake]_vars

(***************************************************************************)
(* What a step put on the wire                                             *)
(***************************************************************************)
\* A datagram of the client that is not out of band
IsSequencedPacket(pkt) == ~(Len(pkt) >= 4 /\ SubSeq(pkt, 1, 4) = <<255, 255, 255, 255>>)

\* The sequenced datagrams among those sent, in the order sent
SequencedSent(s) == SelectSeq(s, IsSequencedPacket)

\* The sequence number and the reliable bit in the header of a sent datagram
WireSequence(pkt) == parseSequencedPacket(pkt).sequence

WireReliable(pkt) == parseSequencedPacket(pkt).reliable

ReliableSent(s) == SelectSeq(SequencedSent(s), WireReliable)

\* The payload of a sent datagram: what follows the two header words and the
\* qport, which takes one byte from protocol R1Q2 on and two bytes before
PayloadOf(pkt, protocol) ==
    SubSeq(pkt, IF protocol >= VERSION_R1Q2 THEN 10 ELSE 11, Len(pkt))

\* The text of a string command, <<>> for any other payload
StringCmdOf(payload) ==
    IF Len(payload) >= 2 /\ payload[1] = CLC_STRINGCMD
    THEN SubSeq(payload, 2, Len(payload) - 1)
    ELSE <<>>

\* The string commands a step sent, in the order sent
StringCmdsSent(s, protocol) ==
    LET cmds == [i \in 1..Len(SequencedSent(s)) |->
                    StringCmdOf(PayloadOf(SequencedSent(s)[i], protocol))]
    IN SelectSeq(cmds, LAMBDA c : c # <<>>)

\* The begin commands among them
BeginsSent(s, protocol) ==
    SelectSeq(StringCmdsSent(s, protocol), LAMBDA c : startsWith(c, Lit_begin_sp))

\* The sequenced datagrams of a step are stamped outgoingSequence,
\* outgoingSequence + 1, ... and the counter ends one past the last stamp.
StampedInOrder ==
    /\ \A i \in 1..Len(SequencedSent(sent')) :
          WireSequence(SequencedSent(sent')[i]) = outgoingSequence + i - 1
    /\ outgoingSequence' = outgoingSequence + Len(SequencedSent(sent'))

\* C5: between two calls of resetConnectionState every sequenced datagram
\* carries the value of outgoingSequence at the time of the call of
\* createSequencedPacket and the call adds one to it, so the numbers on the
\* wire are consecutive, increasing and not reused until the next reset.
C5_StampedAndIncremented == [][~didReset' => StampedInOrder]_vars

\* C5, witness: a step without a reset has sent two sequenced datagrams or more
C5_TwoSent == ~didReset /\ Len(SequencedSent(sent)) >= 2 /\ outgoingSequence > 2

\* C5 as stated: over all the sequenced datagrams the client ever sends the
\* numbers increase and none is used again, that is every step stamps from
\* the counter on and the counter never goes back.
C5_NeverReused == [][StampedInOrder /\ outgoingSequence' >= outgoingSequence]_vars

\* C6: a reliable datagram goes out, and reliableSequence toggles, only when
\* the previous reliable datagram is acknowledged (incomingReliableAcknowledged
\* equals reliableSequence at the time of the send), so one step sends at most
\* one reliable datagram and the bit toggles once with it.
C6_ReliableWaitsForAck ==
    [][(~didReset' /\ (ReliableSent(sent') # <<>> \/ reliableSequence' # reliableSequence))
          => /\ Len(ReliableSent(sent')) = 1
             /\ incomingReliableAcknowledged' = reliableSequence
             /\ reliableSequence' = 1 - reliableSequence]_vars

\* The first precache of a connection arrives, with count n
FirstPrecacheArrives(n) ==
    /\ rx'.op = "receive"
    /\ rx'.buffer \in {SequencedDatagram(incomingSequence + 1, TRUE, a[1], a[2],
                                         PrecachePayload(n)) : a \in AckChoices}
    /\ ~precacheReceived
    /\ ~didReset'

\* C8: outside passive mode the first stufftext "precache N" sets spawnCount
\* to N, and a begin command that is sent carries spawnCount.
C8_BeginCarriesSpawnCount ==
    [][/\ \A n \in PrecacheCounts : FirstPrecacheArrives(n) => spawnCount' = n
       /\ \A i \in 1..Len(BeginsSent(sent', serverProtocol')) :
             BeginsSent(sent', serverProtocol')[i]
                 = Lit_begin_sp \o NumberToString(spawnCount)]_vars

(***************************************************************************)
(* Specification Reconnect: disconnects and late datagrams                 *)
(*                                                                         *)
(* The client is constructed with maxReconnectAttempts = 1.  The server    *)
(* answers getchallenge and connect, sends the out-of-band disconnect, and *)
(* sends reliable datagrams numbered incomingSequence + 1 that carry the   *)
(* stufftext "precache 0" or "cmd configstrings 0" followed by             *)
(* "disconnect"; its datagrams also arrive while the client is not         *)
(* connected.                                                              *)
(***************************************************************************)
\* stufftext "cmd configstrings 0\ndisconnect\n"
CommandThenDisconnectPayload ==
    SvcStufftext(Lit_cmd_configstrings \o <<32, 48, 10>> \o Lit_disconnect \o <<10>>)

ReconnectPayloads == {PrecachePayload(0), CommandThenDisconnectPayload}

InitReconnect == Drawn(Draws) /\ Constructed(FALSE, FALSE, 1)

ChallengeArrives == connectionState = "challenging" /\ Receive(ChallengeDatagram)

DisconnectArrives == Receive(DisconnectDatagram)

ReceiveReconnect ==
    /\ incomingSequence <= MaxSeq
    /\ \E d \in ReconnectPayloads :
          Receive(SequencedDatagram(incomingSequence + 1, TRUE, 0, FALSE, d))

NextReconnect ==
    \/ Within(UserConnects)
    \/ Within(Bind)
    \/ Within(Timeout)
    \/ Within(ChallengeArrives)
    \/ Within(ServerAccepts)
    \/ Within(DisconnectArrives)
    \/ Within(ReceiveReconnect)

SpecReconnect == InitReconnect /\ [][NextReconnect]_vars

\* s is an initial segment of u
IsPrefix(s, u) == Len(s) <= Len(u) /\ SubSeq(u, 1, Len(s)) = s

\* C7: a begin command goes out only when no command enqueued before it is
\* still in pendingCommands, and the commands that wait in pendingCommands
\* are the first string commands of the step that empties the queue, in the
\* order of the queue.
C7_QueueBeforeBegin ==
    [][/\ BeginsSent(sent', serverProtocol') # <<>> => pendingCommands = <<>>
       /\ (pendingCommands # <<>> /\ pendingCommands' = <<>> /\ ~didReset'
               /\ isConnected /\ isConnected')
             => IsPrefix(pendingCommands, StringCmdsSent(sent', serverProtocol'))]_vars

(***************************************************************************)
(* Specification Passive: the handshake of a client in passive mode        *)
(*                                                                         *)
(* As specification Handshake, with passiveMode set.  The server also      *)
(* sends the stufftext "skins" and the out-of-band disconnect, and it      *)
(* acknowledges the client's first reliable packet in every datagram.      *)
(***************************************************************************)
\* stufftext "skins\n"
SkinsPayload == SvcStufftext(Lit_skins \o <<10>>)

SpawnPayloads == {SkinsPayload} \cup {PrecachePayload(n) : n \in PrecacheCounts}

PassivePayloads ==
    {ServerDataPayload, CommandsPayload, ReconnectPayload} \cup SpawnPayloads

InitPassive == Drawn(Draws) /\ Constructed(TRUE, FALSE, 5)

ReceivePassive ==
    /\ isConnected
    /\ incomingSequence <= MaxSeq
    /\ \E d \in PassivePayloads :
          Receive(SequencedDatagram(incomingSequence + 1, TRUE, 1, TRUE, d))

DisconnectsConnected == isConnected /\ Receive(DisconnectDatagram)

NextPassive ==
    \/ Within(UserConnects)
    \/ Within(Bind)
    \/ Within(Timeout)
    \/ Within(ServerChallenges)
    \/ Within(ServerAccepts)
    \/ Within(ReceivePassive)
    \/ Within(DisconnectsConnected)
    \/ Within(HeartbeatTick)
    \/ Within(KeepAliveTick)

SpecPassive == InitPassive /\ [][NextPassive]_vars

\* The first precache or skins of a connection arrives
FirstSpawnArrives ==
    /\ rx'.op = "receive"
    /\ rx'.buffer \in {SequencedDatagram(incomingSequence + 1, TRUE, 1, TRUE, d) :
                          d \in SpawnPayloads}
    /\ ~precacheReceived

\* C9: in passive mode no step sends a begin command and none leaves the
\* sendBeginCommand callback pending, and the first precache or skins of a
\* connection sets connectionState to "spawned" in the step that handles it.
C9_PassiveNeverBegins ==
    [][passiveMode
          => /\ BeginsSent(sent', serverProtocol') = <<>>
             /\ \A i \in 1..Len(timeouts') : timeouts'[i].fn # "sendBeginCommand"
             /\ FirstSpawnArrives
                   => /\ connectionState' = "spawned"
                      /\ precacheReceived'
                      /\ ~awaitingBegin']_vars

\* C9, witness: a passive client has handled precache or skins and is spawned
C9_PassiveSpawned ==
    /\ passiveMode
    /\ rx.op = "receive"
    /\ precacheReceived
    /\ connectionState = "spawned"
    /\ emitted = <<[type |-> "connection", data |-> [status |-> "spawned", passive |-> TRUE]]>>

(***************************************************************************)
(* Specification Monitor: a client in monitor mode                         *)
(*                                                                         *)
(* The user connects and disconnects at any time, the socket may fail, the *)
(* poll interval ticks, and any of these datagrams arrives on the bound    *)
(* socket: status responses (plain, and wrapped in print), a print, the    *)
(* handshake replies challenge, client_connect and disconnect, and         *)
(* sequenced datagrams.                                                    *)
(***************************************************************************)
\* "\\mapname\\<map>\n<players>"
StatusBody(map, players) == <<92>> \o Lit_mapname \o <<92>> \o map \o <<10>> \o players

\* The player lines 3 10 "a" and 0 20 "b"
PlayerA == <<51, 32, 49, 48, 32, 34, 97, 34, 10>>
PlayerB == <<48, 32, 50, 48, 32, 34, 98, 34, 10>>

StatusBodies ==
    {StatusBody(map, players) : map \in {<<109>>, <<110>>},
                                players \in {<<>>, PlayerA, PlayerA \o PlayerB}}

MonitorDatagrams ==
    {OOBDatagram(Lit_statusResponse \o <<10>> \o b) : b \in StatusBodies}
    \cup {OOBDatagram(Lit_print \o <<10>> \o StatusBody(<<109>>, PlayerB)),
          OOBDatagram(Lit_print \o <<10, 104, 105, 10>>),
          ChallengeDatagram, ClientConnectDatagram, DisconnectDatagram,
          SequencedDatagram(1, TRUE, 0, FALSE, PrecachePayload(5)),
          SequencedDatagram(1, TRUE, 0, FALSE, ServerDataPayload),
          FragmentDatagram(1, FALSE, 0, FALSE, 0, TRUE, <<SVC_NOP>>)}

InitMonitor == Drawn(Draws) /\ Constructed(FALSE, TRUE, 5)

ReceiveMonitor == \E buffer \in MonitorDatagrams : Receive(buffer)

NextMonitor ==
    \/ Within(Connect)
    \/ Within(Disconnect)
    \/ Within(Bind)
    \/ Within(SocketError)
    \/ Within(MonitorTick)
    \/ Within(ReceiveMonitor)

SpecMonitor == InitMonitor /\ [][NextMonitor]_vars

\* The fields of the handshake
handshakeState == <<isConnected, connectionState, reconnectAttempts, clientChallengeId, netchanType>>

\* C10: in monitor mode every datagram sent is the out-of-band status query,
\* no handshake or heartbeat callback is pending or armed, and no step
\* changes the netchan state, the handshake state or the game state.
C10_MonitorOnlyPolls ==
    [][monitorMode
          => /\ \A i \in 1..Len(sent') : sent'[i] = createOOBPacket(Lit_status)
             /\ timeouts' = <<>>
             /\ heartbeatInterval' = 0 /\ keepAliveInterval' = 0
             /\ UNCHANGED netchanState
             /\ UNCHANGED handshakeState
             /\ UNCHANGED gameState]_vars

\* C10, witness: a monitoring client, polling, has taken a status response
\* after an earlier one
C10_Monitoring ==
    /\ monitorMode
    /\ monitorPollInterval # 0
    /\ rx.op = "receive"
    /\ lastServerStatus # <<>>
    /\ \E i \in 1..Len(emitted) :
          emitted[i].type = "server_info" /\ emitted[i].data.event = "player_join"

(***************************************************************************)
(* Specification Challenge: the challenge exchange with a protocol list    *)
(*                                                                         *)
(* The server answers each getchallenge with one challenge that carries a  *)
(* p= list, accepts the connect, and may disconnect the connected client,  *)
(* which then asks for a challenge again.                                  *)
(***************************************************************************)
\* The protocol numbers a p= list of the model is made of; 37 is unsupported
ListedProtocols == {VERSION_DEFAULT, VERSION_R1Q2, VERSION_Q2PRO, 37, VERSION_AQTION}

\* The p= lists of the model: every list of up to two numbers, and three longer ones
ProtocolLists ==
    {<<>>} \cup {<<a>> : a \in ListedProtocols}
    \cup {<<a, b>> : a \in ListedProtocols, b \in ListedProtocols}
    \cup {<<VERSION_DEFAULT, VERSION_R1Q2, VERSION_Q2PRO, VERSION_AQTION>>,
          <<VERSION_AQTION, 37, VERSION_Q2PRO, VERSION_R1Q2, VERSION_DEFAULT>>,
          <<VERSION_DEFAULT, 37, VERSION_R1Q2>>}

\* The numbers of a list in decimal, separated by commas
RECURSIVE CommaList(_)
CommaList(l) ==
    IF l = <<>> THEN <<>>
    ELSE IF Len(l) = 1 THEN NumberToString(l[1])
    ELSE NumberToString(l[1]) \o <<44>> \o CommaList(Tail(l))

\* "challenge 12345 p=<list>\n"
ChallengeWith(l) ==
    OOBDatagram(Lit_challenge \o <<32, 49, 50, 51, 52, 53, 32>> \o Lit_p_eq \o CommaList(l)
                    \o <<10>>)

InitChallenge == Drawn(DrawsWithEnds) /\ Constructed(FALSE, FALSE, 5)

ChallengeOffers ==
    /\ connectionState = "challenging"
    /\ timeouts = <<>>
    /\ \E l \in ProtocolLists : Receive(ChallengeWith(l))

\* The first sequenced datagram of a connection: SERVERDATA of some protocol
ServerDataProtocols == {VERSION_DEFAULT, VERSION_Q2PRO}

ServerDataOf(protocol) ==
    SequencedDatagram(1, TRUE, 0, FALSE, SvcServerData(protocol, 7, <<>>, 0, <<109>>))

ServerDataArrives ==
    /\ isConnected
    /\ incomingSequence = 0
    /\ \E protocol \in ServerDataProtocols : Receive(ServerDataOf(protocol))

NextChallenge ==
    \/ Within(UserConnects)
    \/ Within(Bind)
    \/ Within(Timeout)
    \/ Within(ChallengeOffers)
    \/ Within(ServerAccepts)
    \/ Within(ServerDataArrives)
    \/ Within(DisconnectsConnected)

SpecChallenge == InitChallenge /\ [][NextChallenge]_vars

\* The order of preference: AQtion, Q2PRO, R1Q2, vanilla
PreferenceOrder == <<VERSION_AQTION, VERSION_Q2PRO, VERSION_R1Q2, VERSION_DEFAULT>>

Listed(l) == {l[i] : i \in 1..Len(l)}

\* The most preferred protocol among the numbers of l (one of them is supported)
Preferred(l) ==
    PreferenceOrder[CHOOSE i \in 1..4 :
                        /\ PreferenceOrder[i] \in Listed(l)
                        /\ \A k \in 1..(i - 1) : PreferenceOrder[k] \notin Listed(l)]

\* The number after "connect " in an out-of-band connect datagram
ConnectProtocolOf(pkt) == DigitsValue(TakeDigits(substring(pkt, 4 + Len(Lit_connect_sp))))

ConnectSent(s) ==
    /\ Len(s) = 1
    /\ startsWith(s[1], <<255, 255, 255, 255>> \o Lit_connect_sp)

\* C11: a challenge whose p= list holds a supported protocol sets
\* serverProtocol to the most preferred one of the list (AQtion, then Q2PRO,
\* then R1Q2, then vanilla), and the connectToServer callback that follows
\* sends one connect datagram that names serverProtocol.
C11_PreferredProtocol ==
    [][/\ \A l \in ProtocolLists :
             (rx'.op = "receive" /\ rx'.buffer = ChallengeWith(l)
                  /\ Listed(l) \cap Listed(PreferenceOrder) # {})
                => serverProtocol' = Preferred(l)
       /\ (rx'.op = "timeout" /\ rx'.timer.fn = "connectToServer")
             => /\ ConnectSent(sent')
                /\ ConnectProtocolOf(sent'[1]) = serverProtocol
                /\ serverProtocol' = serverProtocol]_vars

\* C11, witness: after the list 34,36 the connect datagram names Q2PRO
C11_ConnectNamesQ2PRO ==
    /\ rx.op = "timeout"
    /\ rx.timer.fn = "connectToServer"
    /\ ConnectSent(sent)
    /\ ConnectProtocolOf(sent[1]) = VERSION_Q2PRO
    /\ serverProtocol = VERSION_Q2PRO


IsChallenge(buffer) == startsWith(buffer, <<255, 255, 255, 255>> \o Lit_challenge)

\* C12: serverProtocol is assigned by the challenge and by nothing else; a
\* step that does not handle a challenge datagram, whatever it receives
\* (SERVERDATA of any protocol number included), leaves it as it was.
C12_ProtocolFixedAfterChallenge ==
    [][~(rx'.op = "receive" /\ IsChallenge(rx'.buffer))
          => serverProtocol' = serverProtocol]_vars


(***************************************************************************)
(* Specification UserDisconnect: the handshake with disconnect() called at *)
(* any moment                                                              *)
(***************************************************************************)
NextUserDisconnect ==
    \/ Within(UserConnects)
    \/ Within(Bind)
    \/ Within(Timeout)
    \/ Within(ServerChallenges)
    \/ Within(ServerAccepts)
    \/ Within(ReceiveHandshake)
    \/ Within(HeartbeatTick)
    \/ Within(KeepAliveTick)
    \/ Within(Disconnect)

SpecUserDisconnect == InitHandshake /\ [][NextUserDisconnect]_vars

\* C13: the step that follows disconnect(), unless it is the next connect()
\* or another disconnect(), sends no packet, emits no event and leaves
\* connectionState at "disconnected": no callback registered before
\* disconnect() does anything afterwards.
C13_QuietAfterDisconnect ==
    [][(rx.op = "disconnect" /\ rx'.op \notin {"connect", "disconnect"})
          => /\ sent' = <<>>
             /\ emitted' = <<>>
             /\ ~threw'
             /\ connectionState' = "disconnected"]_vars


(***************************************************************************)
(* Specification Backoff: disconnects in a row                             *)
(*                                                                         *)
(* The client is constructed with maxReconnectAttempts 1 or 7.  The server *)
(* answers getchallenge and connect and sends the out-of-band disconnect   *)
(* at any moment, several times in a row as well.                          *)
(***************************************************************************)
MaxAttemptsChoices == {1, 7}

InitBackoff == Drawn(Draws) /\ (\E maxAttempts \in MaxAttemptsChoices : Constructed(FALSE, FALSE, maxAttempts))

NextBackoff ==
    \/ Within(UserConnects)
    \/ Within(Bind)
    \/ Within(Timeout)
    \/ Within(ChallengeArrives)
    \/ Within(ServerAccepts)
    \/ Within(DisconnectArrives)

SpecBackoff == InitBackoff /\ [][NextBackoff]_vars

\* The smaller of 5000 * k and 30000
BackoffOf(k) == CHOOSE d \in {5000 * k, 30000} : d <= 5000 * k /\ d <= 30000

\* The events of the list that are connection events with this status
HasConnectionEvent(events, status) ==
    \E i \in 1..Len(events) :
        events[i].type = "connection" /\ events[i].data.status = status

GetChallengeSent(s) == \E i \in 1..Len(s) : s[i] = OOBDatagram(Lit_getchallenge \o <<10>>)

\* The step is a disconnect handled with attempts left: attempt k is counted
\* and requestChallenge is registered with the delay of attempt k
ReconnectScheduled ==
    /\ reconnectAttempts' = reconnectAttempts + 1
    /\ Len(timeouts') = Len(timeouts) + 1
    /\ timeouts'[Len(timeouts')] =
           [fn |-> "requestChallenge", delay |-> BackoffOf(reconnectAttempts'), arg |-> NaN]

\* The terminal event: connection{status=disconnected, reason=max_reconnect_attempts}
TerminalEmitted(events) ==
    \E i \in 1..Len(events) :
        /\ events[i].type = "connection"
        /\ events[i].data.status = "disconnected"
        /\ events[i].data.reason = Lit_max_reconnect_attempts

\* C14: a disconnect datagram handled with attempts left counts attempt k
\* and registers requestChallenge after min(5000 * k, 30000) ms;
\* client_connect sets the count back to 0; reconnectAttempts never exceeds
\* maxReconnectAttempts; a disconnect datagram handled at the maximum emits
\* the terminal event and registers nothing; and the step that follows the
\* terminal event sends no getchallenge.
C14_ReconnectPolicy ==
    [][/\ (rx'.op = "receive" /\ rx'.buffer = DisconnectDatagram
              /\ reconnectAttempts < maxReconnectAttempts) => ReconnectScheduled
       /\ (rx'.op = "receive" /\ rx'.buffer = ClientConnectDatagram)
              => reconnectAttempts' = 0
       /\ reconnectAttempts' <= maxReconnectAttempts'
       /\ (rx'.op = "receive" /\ rx'.buffer = DisconnectDatagram
              /\ reconnectAttempts = maxReconnectAttempts)
              => /\ TerminalEmitted(emitted')
                 /\ timeouts' = timeouts
                 /\ reconnectAttempts' = reconnectAttempts
       /\ TerminalEmitted(emitted) => ~GetChallengeSent(sent')]_vars


(***************************************************************************)
(* Specification Frames: baselines, frames and map changes                 *)
(*                                                                         *)
(* The client is passive or not.  After the handshake the server sends     *)
(* reliable datagrams numbered incomingSequence + 1.  The first of a       *)
(* connection carries SERVERDATA for map "m" and the stufftext             *)
(* "precache 0", alone or followed by a baseline for entity 5 and a frame. *)
(* The later ones carry a baseline for entity 5, a frame that moves        *)
(* entity 5, a frame that removes it, a frame with a player state that     *)
(* moves entity 6, or SERVERDATA for map "m" or map "n".                   *)
(***************************************************************************)
\* svc_spawnbaseline with the bits, a one-byte entity number and the fields
SvcSpawnBaseline(bits, entityNum, fields) ==
    <<SVC_SPAWNBASELINE>> \o bits \o <<entityNum>> \o fields

\* svc_frame of protocol 34: frame number, delta frame 0, suppress count 0,
\* no area bytes, the player state flags and state, the entity deltas
SvcFrame(frameNum, psFlags, playerBytes, entityBytes) ==
    <<SVC_FRAME>> \o UInt32LE(frameNum) \o UInt32LE(0) \o <<0, 0>> \o UInt16LE(psFlags)
        \o playerBytes \o entityBytes

\* Entity 5 with modelindex 3 and origin.x = 16/8
Baseline5 == SvcSpawnBaseline(<<U_ORIGIN1 + U_MOREBITS1, U_MODEL \div 256>>, 5, <<3, 16, 0>>)

\* Frame 1: entity 5 with origin.x = 24/8, then the end of the entities
FrameMove5 == SvcFrame(1, 0, <<>>, <<U_ORIGIN1, 5, 24, 0, 0>>)

\* Frame 2: entity 5 removed
FrameRemove5 == SvcFrame(2, 0, <<>>, <<U_REMOVE, 5, 0>>)

\* Frame 3: pm_type 4, and entity 6 with origin.y = 8/8
FramePlayer6 == SvcFrame(3, PS_M_TYPE, <<4>>, <<U_ORIGIN2, 6, 8, 0, 0>>)

SpawnPayload == ServerDataPayload \o PrecachePayload(0)

OtherMapPayload == SvcServerData(VERSION_DEFAULT, 8, <<>>, 0, <<110>>)

FirstFramePayloads == {SpawnPayload, SpawnPayload \o Baseline5 \o FrameMove5}

LaterFramePayloads ==
    {Baseline5, FrameMove5, FrameRemove5, FramePlayer6, FrameRemove5 \o FrameMove5,
     ServerDataPayload, OtherMapPayload}

InitFrames == Drawn(Draws) /\ (\E passive \in BOOLEAN : Constructed(passive, FALSE, 5))

ReceiveFrames ==
    /\ isConnected
    /\ incomingSequence <= MaxSeq
    /\ \E d \in IF incomingSequence = 0 THEN FirstFramePayloads ELSE LaterFramePayloads :
          Receive(SequencedDatagram(incomingSequence + 1, TRUE, 0, FALSE, d))

NextFrames ==
    \/ Within(UserConnects)
    \/ Within(Bind)
    \/ Within(Timeout)
    \/ Within(ServerChallenges)
    \/ Within(ServerAccepts)
    \/ Within(ReceiveFrames)

SpecFrames == InitFrames /\ [][NextFrames]_vars

\* The step receives the sequenced datagram with this payload
PayloadArrives(r, d) ==
    /\ r.op = "receive"
    /\ r.buffer = SequencedDatagram(incomingSequence + 1, TRUE, 0, FALSE, d)

MapChangeEmitted(events, previousMap, map) ==
    events = <<[type |-> "server_info",
                data |-> [event |-> "map_change", previousMap |-> previousMap, map |-> map]]>>

\* The reliable sequenced packet with the string command "new"
NewSent(s, protocol) ==
    /\ Len(s) = 1
    /\ IsSequencedPacket(s[1])
    /\ WireReliable(s[1])
    /\ PayloadOf(s[1], protocol) = <<CLC_STRINGCMD>> \o Lit_new \o <<0>>

\* C15: SERVERDATA for map "n" on a spawned client whose map is "m" emits
\* map_change with the previous and the new map, empties the entity tables,
\* resets no netchan field (the datagram is accepted and acknowledged as any
\* other: incomingSequence is its number, outgoingSequence grows by the one
\* response, reliableSequence stays), clears hasSentNew and registers
\* sendNewCommand with 500 ms; and that callback, on a connected client that
\* has not sent new since, sends "new" as a reliable string command.
C15_MapChange ==
    [][/\ (PayloadArrives(rx', OtherMapPayload) /\ connectionState = "spawned"
              /\ currentMapName = <<109>>)
          => /\ MapChangeEmitted(emitted', <<109>>, <<110>>)
             /\ currentMapName' = <<110>>
             /\ entityTracker' = EmptyTracker
             /\ ~didReset'
             /\ incomingSequence' = incomingSequence + 1
             /\ outgoingSequence' = outgoingSequence + 1
             /\ reliableSequence' = reliableSequence
             /\ lastReliableSequence' = lastReliableSequence
             /\ incomingReliableSequence' = 1 - incomingReliableSequence
             /\ ~hasSentNew'
             /\ timeouts' = Append(timeouts, [fn |-> "sendNewCommand", delay |-> 500,
                                              arg |-> NaN])
             /\ connectionState' = "spawned"
       /\ (rx'.op = "timeout" /\ rx'.timer.fn = "sendNewCommand" /\ ~hasSentNew
              /\ isConnected)
          => /\ NewSent(sent', serverProtocol)
             /\ hasSentNew']_vars

\* C15, witness: on map "n", still spawned, the deferred callback has sent new
C15_NewAfterMapChange ==
    /\ rx.op = "timeout"
    /\ rx.timer = [fn |-> "sendNewCommand", delay |-> 500, arg |-> NaN]
    /\ currentMapName = <<110>>
    /\ connectionState = "spawned"
    /\ NewSent(sent, serverProtocol)


\* C16: while the client is connected the heartbeat interval has the period
\* of the connection state, 100 ms when spawned and 300 ms otherwise, and a
\* heartbeat tick sends one unreliable sequenced packet whose payload is
\* CLC_NOP when spawned and empty otherwise.
C16_HeartbeatFollowsState ==
    /\ (isConnected /\ heartbeatInterval # 0)
          => heartbeatInterval = IF connectionState = "spawned" THEN 100 ELSE 300
    /\ (rx.op = "heartbeat" /\ isConnected)
          => /\ Len(sent) = 1
             /\ IsSequencedPacket(sent[1])
             /\ ~WireReliable(sent[1])
             /\ PayloadOf(sent[1], serverProtocol)
                    = IF connectionState = "spawned" THEN <<CLC_NOP>> ELSE <<>>


\* The number of events of this type in the list
RECURSIVE EventCount(_, _)
EventCount(events, type) ==
    IF events = <<>> THEN 0
    ELSE (IF Head(events).type = type THEN 1 ELSE 0) + EventCount(Tail(events), type)

\* C17: a frame that applies one entity delta produces one entity_update
\* event, and a frame that applies a player-state delta produces one
\* player_update event with isLocalPlayer.
C17_FrameEvents ==
    [][/\ \A d \in {FrameMove5, FrameRemove5, FramePlayer6} :
             PayloadArrives(rx', d) => EventCount(emitted', "entity_update") = 1
       /\ PayloadArrives(rx', FramePlayer6)
             => \E i \in 1..Len(emitted') :
                    /\ emitted'[i].type = "player_update"
                    /\ emitted'[i].data.isLocalPlayer]_vars


\* The state that the baseline of the model writes for entity 5
BaselineState5 ==
    [createEmptyEntity EXCEPT !.number = 5, !.modelindex = 3, !.origin.x = Eighths(16),
                              !.active = TRUE]

\* C18: once SPAWNBASELINE has written the state s for entity 5,
\* baselines[5] is s in every state in which the table still has the entry
\* (a map change or a connection reset empties the table), whatever frame
\* deltas for entity 5 were applied.
C18_BaselineKept ==
    5 \in DOMAIN entityTracker.baselines => entityTracker.baselines[5] = BaselineState5


\* C19: after a frame whose delta for entity 5 has U_REMOVE, entities[5] is
\* not active and no entity that getActiveEntities returns has the number 5.
C19_RemovedIsInactive ==
    [][PayloadArrives(rx', FrameRemove5)
          => /\ 5 \in DOMAIN entityTracker'.entities
             /\ ~entityTracker'.entities[5].active
             /\ \A e \in getActiveEntities(entityTracker') : e.number # 5]_vars

\* C19, witness: entity 5, moved to origin.x = 24/8 by an earlier frame, has
\* been removed by the frame just received
C19_Removed5 ==
    /\ rx.op = "receive"
    /\ rx.buffer = SequencedDatagram(incomingSequence, TRUE, 0, FALSE, FrameRemove5)
    /\ 5 \in DOMAIN entityTracker.entities
    /\ entityTracker.entities[5].removed
    /\ entityTracker.entities[5].origin.x = Eighths(24)
    /\ ~entityTracker.entities[5].active


(***************************************************************************)
(* SpecDecode: a connected client receives payloads that end in the middle *)
(* of a message or at an opcode the decoder does not know.                 *)
(***************************************************************************)
PrintA == SvcPrint(2, <<97>>)

PrintB == SvcPrint(2, <<98>>)

\* An opcode without a case in parseGameMessage
UnknownOpcode == SVC_BASELINESTREAM + 1

\* What the payload starts with: messages that are complete
DecodePrefixes == {<<>>, PrintA \o PrintB, SpawnPayload}

\* Frame 3 whose player state ends after the first byte of the origin
FrameCutShort == SvcFrame(3, PS_M_ORIGIN, <<5>>, <<>>)

\* Where decoding stops: SERVERDATA, FRAME and CONFIGSTRING cut short before
\* their fixed fields, a frame cut short inside its player state, and an
\* unknown opcode followed by a complete message
DecodeStops ==
    {<<SVC_SERVERDATA, 34, 0>>, <<SVC_FRAME, 1>>, <<SVC_CONFIGSTRING, 1>>,
     FrameCutShort, <<UnknownOpcode>> \o PrintA}

InitDecode == Drawn(Draws) /\ (\E passive \in BOOLEAN : Constructed(passive, FALSE, 5))

ReceiveDecode ==
    /\ isConnected
    /\ incomingSequence <= MaxSeq
    /\ \E p \in DecodePrefixes, s \in DecodeStops \cup {<<>>} :
          Receive(SequencedDatagram(incomingSequence + 1, TRUE, 0, FALSE, p \o s))

NextDecode ==
    \/ Within(UserConnects)
    \/ Within(Bind)
    \/ Within(Timeout)
    \/ Within(ServerChallenges)
    \/ Within(ServerAccepts)
    \/ Within(ReceiveDecode)

SpecDecode == InitDecode /\ [][NextDecode]_vars

\* handleServerPacket in the current state on the sequenced datagram with
\* the payload d
AfterPayload(d) ==
    handleServerPacket(
        Start([op |-> "receive",
               buffer |-> SequencedDatagram(incomingSequence + 1, TRUE, 0, FALSE, d)]),
        SequencedDatagram(incomingSequence + 1, TRUE, 0, FALSE, d))

\* The two console messages of PrintA \o PrintB, in the order of the payload
TwoPrintsEmitted(events) ==
    events = <<[type |-> "console_message", data |-> [level |-> "HIGH", text |-> <<97>>]],
               [type |-> "console_message", data |-> [level |-> "HIGH", text |-> <<98>>]]>>

\* The last datagram sent is a sequenced packet that acknowledges sequence
AcknowledgedBy(s, sequence) ==
    /\ s # <<>>
    /\ IsSequencedPacket(s[Len(s)])
    /\ parseSequencedPacket(s[Len(s)]).ack = sequence

\* The step handled a payload that is the complete messages p followed by the
\* stop s as it would have handled p alone, and acknowledged the packet
StopHandledAs(p, s) ==
    PayloadArrives(rx', p \o s)
        => /\ isConnected' = AfterPayload(p).isConnected
           /\ connectionState' = AfterPayload(p).connectionState
           /\ emitted' = AfterPayload(p).emitted
           /\ isConnected'
           /\ incomingSequence' = incomingSequence + 1
           /\ AcknowledgedBy(sent', incomingSequence + 1)
           /\ ~threw'
           /\ p = <<>> => emitted' = <<>> /\ connectionState' = connectionState
           /\ p = PrintA \o PrintB
                 => TwoPrintsEmitted(emitted') /\ connectionState' = connectionState

\* C20: a payload whose decoding stops early (a field cut short, or an opcode
\* the decoder does not know) leaves the connection up: the messages before
\* the stop are dispatched in order, isConnected and connectionState are what
\* these messages alone make them, and the packet is acknowledged.
C20_DecodeStopKeepsConnection ==
    [][\A p \in DecodePrefixes, s \in DecodeStops : StopHandledAs(p, s)]_vars

\* C20, witness: the payload with two prints and then an unknown opcode has
\* arrived on a spawned client; both prints were emitted and the response sent
C20_PrintsBeforeUnknownOpcode ==
    /\ rx.op = "receive"
    /\ rx.buffer = SequencedDatagram(incomingSequence, TRUE, 0, FALSE,
                                     PrintA \o PrintB \o <<UnknownOpcode>> \o PrintA)
    /\ TwoPrintsEmitted(emitted)
    /\ isConnected
    /\ connectionState = "spawned"
    /\ AcknowledgedBy(sent, incomingSequence)


(***************************************************************************)
(* SpecOrder: a connected client receives payloads with several messages,  *)
(* some of them inside a ZPACKET or compressed as a whole, as stored       *)
(* blocks or Huffman-coded.                                                *)
(***************************************************************************)
\* A deflate stream of one final stored block with these bytes; the bits of
\* the header byte above the block type are padding
StoredStream(header, body) ==
    <<header>> \o UInt16LE(Len(body)) \o UInt16LE(65535 - Len(body)) \o body

SvcZPacket(body) ==
    <<SVC_ZPACKET>> \o UInt16LE(Len(StoredStream(1, body))) \o UInt16LE(Len(body))
        \o StoredStream(1, body)

PrintC == SvcPrint(2, <<99>>)

PrintD == SvcPrint(2, <<100>>)

\* a, then b and c inside a ZPACKET, then d
ZPacketBetween == PrintA \o SvcZPacket(PrintB \o PrintC) \o PrintD

\* a, then a ZPACKET with an unknown opcode before b, then c
ZPacketWithUnknown == PrintA \o SvcZPacket(<<UnknownOpcode>> \o PrintB) \o PrintC

\* a, then a ZPACKET whose body does not inflate, then b
ZPacketBroken == PrintA \o <<SVC_ZPACKET, 2, 0, 2, 0, 7, 7>> \o PrintB

\* The whole payload c, d as a deflate stream whose first byte has bit 7 set
WholeCompressed == StoredStream(129, PrintC \o PrintD)

\* The prints b, c and the prints c, d as deflate streams of one block with
\* the fixed Huffman codes (what zlib.deflateRawSync makes of these bytes)
DeflatedBC == <<227, 98, 74, 98, 224, 98, 74, 102, 0, 0>>
DeflatedCD == <<227, 98, 74, 102, 224, 98, 74, 97, 0, 0>>

\* a, then b and c inside a ZPACKET whose body is Huffman-coded, then d
ZPacketDeflated ==
    PrintA \o <<SVC_ZPACKET>> \o UInt16LE(Len(DeflatedBC)) \o UInt16LE(Len(PrintB \o PrintC))
        \o DeflatedBC \o PrintD

OrderPayloads ==
    {ZPacketBetween, ZPacketWithUnknown, ZPacketBroken, WholeCompressed, PrintD \o PrintA,
     ZPacketDeflated, DeflatedCD}

InitOrder == Drawn(Draws) /\ (\E passive \in BOOLEAN : Constructed(passive, FALSE, 5))

ReceiveOrder ==
    /\ isConnected
    /\ incomingSequence <= MaxSeq
    /\ \E d \in OrderPayloads \cup {SpawnPayload} :
          Receive(SequencedDatagram(incomingSequence + 1, TRUE, 0, FALSE, d))

NextOrder ==
    \/ Within(UserConnects)
    \/ Within(Bind)
    \/ Within(Timeout)
    \/ Within(ServerChallenges)
    \/ Within(ServerAccepts)
    \/ Within(ReceiveOrder)

SpecOrder == InitOrder /\ [][NextOrder]_vars

\* The console_message events of prints of level 2 with these one-letter texts
RECURSIVE ConsoleEvents(_)
ConsoleEvents(letters) ==
    IF letters = <<>> THEN <<>>
    ELSE <<[type |-> "console_message",
            data |-> [level |-> "HIGH", text |-> <<Head(letters)>>]]>>
         \o ConsoleEvents(Tail(letters))

\* The letters of the prints of a payload, in the order of the byte stream
LettersOf(d) ==
    CASE d = ZPacketBetween -> <<97, 98, 99, 100>>
      [] d = ZPacketWithUnknown -> <<97, 98, 99>>
      [] d = ZPacketBroken -> <<97, 98>>
      [] d = WholeCompressed -> <<99, 100>>
      [] d = PrintD \o PrintA -> <<100, 97>>
      [] d = ZPacketDeflated -> <<97, 98, 99, 100>>
      [] d = DeflatedCD -> <<99, 100>>

\* C21: the events of one received packet are emitted in the order of its
\* messages, those of a ZPACKET at the place of the ZPACKET; the events a
\* packet's step emits are its own, so packets keep their reception order.
C21_EventsInDecodeOrder ==
    [][\A d \in OrderPayloads :
          PayloadArrives(rx', d) => emitted' = ConsoleEvents(LettersOf(d))]_vars

\* C21, witness: the packet with a ZPACKET between two prints has arrived as
\* the second packet, and the four events a, b, c, d were emitted
C21_ZPacketInPlace ==
    /\ rx.op = "receive"
    /\ incomingSequence = 2
    /\ rx.buffer = SequencedDatagram(2, TRUE, 0, FALSE, ZPacketBetween)
    /\ emitted = ConsoleEvents(<<97, 98, 99, 100>>)


\* The events of this type among those emitted
EventsOfType(events, type) == SelectSeq(events, LAMBDA e : e.type = type)

\* C22: a step that changes connectionState emits a connection event.
C22_ChangeHasConnectionEvent ==
    [][connectionState' # connectionState
          => EventsOfType(emitted', "connection") # <<>>]_vars


(***************************************************************************)
(* SpecStatus: a monitor client receives status responses one after the    *)
(* other; the second and later ones are compared with the one before.      *)
(***************************************************************************)
\* An info line without the key mapname: "\\game\\x"
StatusBodyWithoutMap(players) == <<92>> \o Lit_game \o <<92, 120, 10>> \o players

StatusPlayerLists == {<<>>, PlayerA, PlayerB, PlayerA \o PlayerB, PlayerA \o PlayerA}

StatusResponses ==
    {OOBDatagram(Lit_statusResponse \o <<10>> \o StatusBody(map, players)) :
        map \in {<<109>>, <<110>>}, players \in StatusPlayerLists}
    \cup {OOBDatagram(Lit_statusResponse \o <<10>> \o StatusBodyWithoutMap(players)) :
            players \in {<<>>, PlayerA}}

ReceiveStatus == \E buffer \in StatusResponses : Receive(buffer)

NextStatus ==
    \/ Within(UserConnects)
    \/ Within(Bind)
    \/ Within(ReceiveStatus)

SpecStatus == InitMonitor /\ [][NextStatus]_vars

\* The entries of a player list whose name is not in the other list
EntriesNotIn(players, others) ==
    {i \in 1..Len(players) : players[i].name \notin {others[k].name : k \in 1..Len(others)}}

\* The server_info events of this kind among those emitted
InfoEvents(events, kind) ==
    SelectSeq(events, LAMBDA e : e.type = "server_info" /\ e.data.event = kind)

EventNames(events) == {events[i].data.name : i \in 1..Len(events)}

\* The step handled a status response B while A was the last one: the joins
\* are the entries of B with a name not in A, the leaves those of A with a
\* name not in B, and nothing but joins, leaves and map changes is emitted
DiffOfPlayers(a, b, events) ==
    /\ Len(InfoEvents(events, "player_join")) = Cardinality(EntriesNotIn(b.players, a.players))
    /\ EventNames(InfoEvents(events, "player_join"))
           = {b.players[i].name : i \in EntriesNotIn(b.players, a.players)}
    /\ Len(InfoEvents(events, "player_leave")) = Cardinality(EntriesNotIn(a.players, b.players))
    /\ EventNames(InfoEvents(events, "player_leave"))
           = {a.players[i].name : i \in EntriesNotIn(a.players, b.players)}
    /\ Len(events) = Len(InfoEvents(events, "player_join"))
                       + Len(InfoEvents(events, "player_leave"))
                       + Len(InfoEvents(events, "map_change"))
    /\ Len(InfoEvents(events, "map_change")) <= 1

\* The step handled a status response
StatusHandled ==
    /\ rx'.op = "receive"
    /\ rx'.buffer \in StatusResponses
    /\ lastServerStatus' # <<>>

\* The very first response emits the status event and nothing else
FirstIsStatusOnly ==
    StatusHandled /\ lastServerStatus = <<>>
        => Len(emitted') = 1 /\ Len(InfoEvents(emitted', "status")) = 1

\* C23 as stated: joins and leaves are the differences of the name lists, and
\* map_change is emitted exactly when the mapname of B differs from that of A.
C23_StatusDiff ==
    [][/\ FirstIsStatusOnly
       /\ StatusHandled /\ lastServerStatus # <<>>
            => /\ DiffOfPlayers(lastServerStatus[1], lastServerStatus'[1], emitted')
               /\ InfoEvents(emitted', "map_change") # <<>>
                    <=> InfoGet(lastServerStatus'[1].info, Lit_mapname)
                            # InfoGet(lastServerStatus[1].info, Lit_mapname)]_vars

\* C23, amended: map_change is emitted exactly when B carries a mapname and it
\* differs from that of A; joins, leaves and the first response as stated.
C23_StatusDiffWithMapname ==
    [][/\ FirstIsStatusOnly
       /\ StatusHandled /\ lastServerStatus # <<>>
            => /\ DiffOfPlayers(lastServerStatus[1], lastServerStatus'[1], emitted')
               /\ InfoEvents(emitted', "map_change") # <<>>
                    <=> /\ InfoGet(lastServerStatus'[1].info, Lit_mapname) # <<>>
                        /\ InfoGet(lastServerStatus'[1].info, Lit_mapname)
                               # InfoGet(lastServerStatus[1].info, Lit_mapname)]_vars

\* C23, witness: after a response with player a on map m, the response with
\* players a and b on map n gave a join for b only and the map change
C23_JoinAndMapChange ==
    /\ rx.op = "receive"
    /\ rx.buffer = OOBDatagram(Lit_statusResponse \o <<10>>
                                   \o StatusBody(<<110>>, PlayerA \o PlayerB))
    /\ EventNames(InfoEvents(emitted, "player_join")) = {<<98>>}
    /\ InfoEvents(emitted, "player_leave") = <<>>
    /\ Len(InfoEvents(emitted, "map_change")) = 1
    /\ Len(emitted) = 2


(***************************************************************************)
(* SpecRoundTrip: a monitor client receives the status responses a server  *)
(* builds from an info map and a player list.                              *)
(***************************************************************************)
\* The info keys the encoder writes, in this order
InfoKeyOrder == <<Lit_hostname, Lit_mapname>>

InfoValues == {<<>>, <<109>>}

\* The info maps: a value, possibly empty, for some of the keys
InfoMaps ==
    UNION {[{InfoKeyOrder[i] : i \in ks} -> InfoValues] : ks \in SUBSET (1..Len(InfoKeyOrder))}

RoundTripPlayers ==
    {[score |-> s, ping |-> 10, name |-> n] : s \in {3, 0 - 1}, n \in {<<97>>, <<98>>}}

PlayerLists ==
    {<<>>} \cup {<<p>> : p \in RoundTripPlayers}
           \cup {<<p, q>> : p \in {r \in RoundTripPlayers : r.name = <<97>>},
                             q \in {r \in RoundTripPlayers : r.name = <<98>>}}

\* The infostring: \key\value for every key of the map
RECURSIVE EncodeInfo(_, _)
EncodeInfo(info, i) ==
    IF i > Len(InfoKeyOrder) THEN <<>>
    ELSE (IF InfoKeyOrder[i] \in DOMAIN info
          THEN <<92>> \o InfoKeyOrder[i] \o <<92>> \o info[InfoKeyOrder[i]]
          ELSE <<>>) \o EncodeInfo(info, i + 1)

\* The player lines: score ping "name"
RECURSIVE EncodePlayers(_)
EncodePlayers(players) ==
    IF players = <<>> THEN <<>>
    ELSE NumberToString(Head(players).score) \o <<32>> \o NumberToString(Head(players).ping)
             \o <<32, 34>> \o Head(players).name \o <<34, 10>>
             \o EncodePlayers(Tail(players))

\* The OOB status response for an info map and a player list
EncodeStatus(info, players) ==
    OOBDatagram(Lit_statusResponse \o <<10>> \o EncodeInfo(info, 1) \o <<10>>
                    \o EncodePlayers(players))

ReceiveEncoded == \E info \in InfoMaps, players \in PlayerLists : Receive(EncodeStatus(info, players))

NextRoundTrip ==
    \/ Within(UserConnects)
    \/ Within(Bind)
    \/ Within(ReceiveEncoded)

SpecRoundTrip == InitMonitor /\ [][NextRoundTrip]_vars

\* C24: the status parsed from the encoded response of an info map and a
\* player list is that info map and that player list.
C24_StatusRoundTrip ==
    \A info \in InfoMaps, players \in PlayerLists :
        rx.op = "receive" /\ rx.buffer = EncodeStatus(info, players)
            => lastServerStatus = <<[info |-> info, players |-> players]>>

\* The round trip of the info maps without an empty value
RoundTripOfFilledValues ==
    \A info \in InfoMaps, players \in PlayerLists :
        /\ rx.op = "receive"
        /\ rx.buffer = EncodeStatus(info, players)
        /\ \A k \in DOMAIN info : info[k] # <<>>
        => lastServerStatus = <<[info |-> info, players |-> players]>>


(***************************************************************************)
(* getServerStatus (libs/q2status): one status query on a socket of its    *)
(* own.  The four callbacks of the call run in any order the runtime       *)
(* allows: the timer while it is armed, the send callback once, message    *)
(* and error events while the socket is open.                              *)
(***************************************************************************)
\* The state of the call as one record, for the callbacks below
Query ==
    [promise |-> promise, statusTimeout |-> statusTimeout, statusSocket |-> statusSocket,
     closeCalls |-> closeCalls, uncaught |-> uncaught]

\* resolve(value) and reject(reason): a promise that is settled stays as it is
resolve(q, value) ==
    IF q.promise.state = "pending"
    THEN [q EXCEPT !.promise = [state |-> "resolved", value |-> value]]
    ELSE q

reject(q, reason) ==
    IF q.promise.state = "pending"
    THEN [q EXCEPT !.promise = [state |-> "rejected", reason |-> reason]]
    ELSE q

clearTimeout(q) ==
    IF q.statusTimeout = "armed" THEN [q EXCEPT !.statusTimeout = "cleared"] ELSE q

\* socket.close(): on a socket that is closed already it throws
\* ERR_SOCKET_DGRAM_NOT_RUNNING
socketClose(q) ==
    IF q.statusSocket = "closed"
    THEN [q EXCEPT !.closeCalls = @ + 1, !.uncaught = TRUE]
    ELSE [q EXCEPT !.closeCalls = @ + 1, !.statusSocket = "closed"]

\* for (i = 0; i < configPairs.length; i += 2) of the message handler; i is 1-based
RECURSIVE ConfigPairs(_, _, _)
ConfigPairs(configPairs, i, config) ==
    IF i > Len(configPairs) THEN config
    ELSE ConfigPairs(configPairs, i + 2,
             IF configPairs[i] # <<>> /\ i + 1 <= Len(configPairs)
             THEN SetProperty(config, configPairs[i], configPairs[i + 1])
             ELSE config)

QueryConfig(configLine) ==
    IF startsWith(configLine, <<92>>)
    THEN ConfigPairs(split(substring(configLine, 1), 92), 1, <<>>)
    ELSE <<>>

\* name.replace(/^"|"$/g, "")
StripQuotes(name) ==
    LET s1 == IF name # <<>> /\ Head(name) = 34 THEN Tail(name) ELSE name
    IN IF s1 # <<>> /\ s1[Len(s1)] = 34 THEN SubSeq(s1, 1, Len(s1) - 1) ELSE s1

\* One player line of the message handler, split at the spaces
QueryPlayer(parts) ==
    IF Len(parts) >= 3
    THEN <<[frags |-> parseIntRadix10(parts[1]), ping |-> parseIntRadix10(parts[2]),
            name |-> StripQuotes(join(SubSeq(parts, 3, Len(parts)), <<32>>))]>>
    ELSE <<>>

\* for (i = 1; i < dataLines.length; i++) of the message handler; i is 1-based
RECURSIVE QueryPlayers(_, _)
QueryPlayers(dataLines, i) ==
    IF i > Len(dataLines) THEN <<>>
    ELSE (IF trim(dataLines[i]) # <<>> THEN QueryPlayer(split(trim(dataLines[i]), 32))
          ELSE <<>>) \o QueryPlayers(dataLines, i + 1)

\* The result the message handler resolves with; msg.subarray(4).toString()
\* decodes the datagram as UTF-8
QueryResult(msg, hostPort) ==
    LET dataLines == Tail(split(toStringUtf8(slice(msg, 4, Len(msg))), 10))
    IN [config |-> QueryConfig(IF dataLines # <<>> THEN dataLines[1] ELSE <<>>),
        players |-> QueryPlayers(dataLines, 2),
        net |-> [host |-> hostPort[1], port |-> hostPort[2]]]

\* new Error(message)
Error(message) == [message |-> message]

Lit_Timeout_No_se_recibio ==                                                 \* "Timeout: No se recibió respuesta del servidor: "
    <<84, 105, 109, 101, 111, 117, 116, 58, 32, 78, 111, 32, 115, 101, 32, 114, 101, 99, 105,
      98, 105, 243, 32, 114, 101, 115, 112, 117, 101, 115, 116, 97, 32, 100, 101, 108, 32, 115,
      101, 114, 118, 105, 100, 111, 114, 58, 32>>
Lit_Error_al_enviar_status ==                                                \* "❌ Error al enviar status: "
    <<10060, 32, 69, 114, 114, 111, 114, 32, 97, 108, 32, 101, 110, 118, 105, 97, 114, 32, 115,
      116, 97, 116, 117, 115, 58, 32>>
Lit_Error_en_el_socket ==                                                    \* "❌ Error en el socket: "
    <<10060, 32, 69, 114, 114, 111, 114, 32, 101, 110, 32, 101, 108, 32, 115, 111, 99, 107,
      101, 116, 58, 32>>

\* The callbacks, on the state of the call
onTimeout(q, hostPort) ==
    LET closed == socketClose([q EXCEPT !.statusTimeout = "fired"])
    IN IF closed.uncaught THEN closed
       ELSE reject(closed, Error(Lit_Timeout_No_se_recibio \o hostPort[1] \o <<58>>
                                     \o NumberToString(hostPort[2])))

onSendError(q, err) ==
    socketClose(clearTimeout(reject(q, Error(Lit_Error_al_enviar_status \o err.message))))

onMessage(q, msg, hostPort) == socketClose(clearTimeout(resolve(q, QueryResult(msg, hostPort))))

onStatusSocketError(q, err) ==
    socketClose(clearTimeout(reject(q, Error(Lit_Error_en_el_socket \o err.message))))

CommitQuery(q) ==
    /\ promise' = q.promise
    /\ statusTimeout' = q.statusTimeout
    /\ statusSocket' = q.statusSocket
    /\ closeCalls' = q.closeCalls
    /\ uncaught' = q.uncaught
    /\ UNCHANGED net
    /\ UNCHANGED vars

QueryHosts == {<<113, 50>>, <<49, 46, 50, 46, 51, 46, 52>>}

\* Responses with bytes beyond ASCII in the name of a player and after it:
\* a lone E9, UTF-8 for U+00E9, UTF-8 for U+00A0 at the end of the line, a
\* cut-short character and UTF-8 for U+1F600
NamesBeyondAscii ==
    {<<34, 74, 111, 233, 34>>, <<34, 74, 111, 195, 169, 34>>, <<34, 120, 34, 194, 160>>,
     <<34, 193, 236, 34>>, <<34, 240, 159, 152, 128, 34>>}

QueryResponses ==
    {OOBDatagram(Lit_print \o <<10>> \o EncodeInfo(info, 1) \o <<10>> \o EncodePlayers(players)) :
        info \in InfoMaps, players \in PlayerLists}
    \cup {OOBDatagram(Lit_print \o <<10, 92, 97, 92, 49, 10, 49, 32, 50, 32>> \o name \o <<10>>) :
              name \in NamesBeyondAscii}

\* getServerStatus(host, port): the socket is created, the timer armed and
\* the query handed to socket.send
GetServerStatus ==
    /\ promise.state = "none"
    /\ \E host \in QueryHosts : net' = <<host, 27910>>
    /\ promise' = [state |-> "pending"]
    /\ statusTimeout' = "armed"
    /\ statusSocket' = "open"
    /\ sendCallback' = "pending"
    /\ closeCalls' = 0
    /\ uncaught' = FALSE
    /\ UNCHANGED vars

\* The 1 s timer fires
StatusTimeout ==
    /\ ~uncaught
    /\ statusTimeout = "armed"
    /\ UNCHANGED sendCallback
    /\ CommitQuery(onTimeout(Query, net))

\* The callback of socket.send runs without an error
SendDone ==
    /\ ~uncaught
    /\ sendCallback = "pending"
    /\ statusSocket = "open"
    /\ sendCallback' = "sent"
    /\ CommitQuery(Query)

\* The callback of socket.send runs with an error; a lookup of the host that
\* fails reports to it whether or not the socket has been closed meanwhile
SendFails ==
    /\ ~uncaught
    /\ sendCallback = "pending"
    /\ sendCallback' = "failed"
    /\ \E err \in SocketErrors : CommitQuery(onSendError(Query, err))

\* A datagram arrives at the socket of the call: the socket receives from the
\* moment socket.send has bound it, whether or not the callback of send has run
StatusMessage ==
    /\ ~uncaught
    /\ statusSocket = "open"
    /\ UNCHANGED sendCallback
    /\ \E msg \in QueryResponses : CommitQuery(onMessage(Query, msg, net))

\* The socket emits error
StatusSocketError ==
    /\ ~uncaught
    /\ statusSocket = "open"
    /\ UNCHANGED sendCallback
    /\ \E err \in SocketErrors : CommitQuery(onStatusSocketError(Query, err))

NextQuery ==
    \/ GetServerStatus
    \/ StatusTimeout
    \/ SendDone
    \/ SendFails
    \/ StatusMessage
    \/ StatusSocketError

InitQuery == Drawn(Draws) /\ Constructed(FALSE, FALSE, 5)

SpecQuery == InitQuery /\ [][NextQuery]_<<vars, queryVars>>

\* C25: whatever the order of the callbacks, socket.close() is called once
\* and never throws, and a settled promise has its timer cleared or fired
\* and its socket closed.
C25_SettledAndClosedOnce ==
    /\ closeCalls <= 1
    /\ ~uncaught
    /\ promise.state \in {"resolved", "rejected"}
         => closeCalls = 1 /\ statusTimeout \in {"cleared", "fired"} /\ statusSocket = "closed"

\* The promise is pending until the first of the callbacks settles it, and
\* is resolved only by a message
SettledByFirstCallback ==
    [][/\ promise.state \in {"resolved", "rejected"} => promise' = promise
       /\ promise.state = "pending" /\ promise'.state = "resolved" => StatusMessage
       /\ promise.state = "pending" /\ promise'.state = "rejected"
            => StatusTimeout \/ SendFails \/ StatusSocketError]_<<vars, queryVars>>


(***************************************************************************)
(* SpecAnyState: the handshake datagrams arrive in whatever state the      *)
(* client is in, between the packets that connect and spawn it.            *)
(***************************************************************************)
\* "challenge 0\n"
ChallengeZeroDatagram == OOBDatagram(Lit_challenge \o <<32, 48, 10>>)

InitAnyState == Drawn(DrawsWithEnds) /\ (\E passive \in BOOLEAN : Constructed(passive, FALSE, 5))

\* A challenge, with the number 12345 or 0, in any state of a bound client
ChallengeInAnyState ==
    \E buffer \in {ChallengeDatagram, ChallengeZeroDatagram} : Receive(buffer)

\* client_connect in any state of a bound client
ClientConnectInAnyState == Receive(ClientConnectDatagram)

ReceiveSpawn ==
    /\ isConnected
    /\ incomingSequence < MaxSeq
    /\ Receive(SequencedDatagram(incomingSequence + 1, TRUE, 0, FALSE, SpawnPayload))

NextAnyState ==
    \/ Within(UserConnects)
    \/ Within(Bind)
    \/ Within(Timeout)
    \/ Within(ChallengeInAnyState)
    \/ Within(ClientConnectInAnyState)
    \/ Within(ReceiveSpawn)

SpecAnyState == InitAnyState /\ [][NextAnyState]_vars

\* C26: a client_connect received while the client is not connecting leaves
\* connectionState and isConnected as they are and starts no heartbeat and
\* no sendNewCommand callback.
C26_ClientConnectOnlyWhenConnecting ==
    [][rx'.op = "receive" /\ rx'.buffer = ClientConnectDatagram
          /\ connectionState # "connecting"
          => /\ connectionState' = connectionState
             /\ isConnected' = isConnected
             /\ heartbeatInterval' = heartbeatInterval
             /\ timeouts' = timeouts]_vars

\* C27: a challenge received while the client is not challenging sends
\* nothing, leaves connectionState as it is and registers no connectToServer
\* callback, so that no connect packet follows from it.
C27_ChallengeOnlyWhenChallenging ==
    [][rx'.op = "receive" /\ IsChallenge(rx'.buffer) /\ connectionState # "challenging"
          => /\ sent' = <<>>
             /\ connectionState' = connectionState
             /\ timeouts' = timeouts]_vars

\* The challenge field of a connect packet: connect <proto> <qport> <challenge> ...
ConnectChallengeOf(pkt) ==
    LET afterConnect == substring(pkt, 4 + Len(Lit_connect_sp))
        afterProtocol == substring(afterConnect, Len(TakeDigits(afterConnect)) + 1)
        afterQport == substring(afterProtocol, Len(TakeDigits(afterProtocol)) + 1)
    IN parseInt(afterQport)

\* C28: the connect packet that connectToServer sends for the challenge
\* number N of the challenge datagram, N = 0 included, carries N.
C28_ConnectCarriesChallenge ==
    [][rx'.op = "timeout" /\ rx'.timer.fn = "connectToServer" /\ ~rx'.timer.arg.nan /\ ~threw'
          => /\ ConnectSent(sent')
             /\ ConnectChallengeOf(sent'[1]) = rx'.timer.arg]_vars


(***************************************************************************)
(* Specification Rehandshake: a reconnect requested by the server          *)
(*                                                                         *)
(* The server answers the handshake and answers "new" with its server      *)
(* data: server count 7 the first time, server count 8 when the client     *)
(* has seen server data before.  To a client it has accepted it may send   *)
(* stufftext "reconnect" at any moment, whole or as a fragmented message   *)
(* of two fragments, and whole in the packet after a fragmented message    *)
(* whose second fragment was lost.  The heartbeat keeps running            *)
(* throughout.                                                             *)
(***************************************************************************)
SessionPayloads ==
    {ReconnectPayload, PrecachePayload(0)}
        \cup (IF ~hasSentNew \/ hasServerData THEN {}
              ELSE IF serverCount = 0 THEN {ServerDataPayload} ELSE {OtherMapPayload})

InitRehandshake == Drawn(Draws) /\ (\E passive \in BOOLEAN : Constructed(passive, FALSE, 5))

ServerAcceptsAgain ==
    /\ connectionState = "connecting"
    /\ Receive(ClientConnectDatagram)

SessionArrives(d) == Receive(SequencedDatagram(incomingSequence + 1, TRUE, 0, FALSE, d))

ReceiveSession ==
    /\ socket = "bound"
    /\ isConnected
    /\ incomingSequence < MaxSeq
    /\ \E d \in SessionPayloads : SessionArrives(d)

\* The reconnect stufftext in two fragments
FragmentHead == SubSeq(ReconnectPayload, 1, 5)
FragmentRest == SubSeq(ReconnectPayload, 6, Len(ReconnectPayload))

\* The first fragment of the next message arrives on the connection
FragmentBegins ==
    /\ socket = "bound"
    /\ isConnected
    /\ incomingSequence < MaxSeq
    /\ Receive(FragmentDatagram(incomingSequence + 1, TRUE, 0, FALSE, 0, TRUE, FragmentHead))

\* The client holds the first fragment of the next message
FragmentHeld == fragmentSequence = incomingSequence + 1 /\ fragmentBuffer = FragmentHead

\* The second and last fragment arrives
FragmentEnds ==
    /\ socket = "bound"
    /\ FragmentHeld
    /\ Receive(FragmentDatagram(fragmentSequence, TRUE, 0, FALSE, Len(FragmentHead), FALSE,
                                FragmentRest))

\* The second fragment was lost; the next packet of the server carries the
\* reconnect whole
ReconnectAfterLoss ==
    /\ socket = "bound"
    /\ FragmentHeld
    /\ Receive(SequencedDatagram(fragmentSequence + 1, TRUE, 0, FALSE, ReconnectPayload))

NextRehandshake ==
    \/ Within(UserConnects)
    \/ Within(Bind)
    \/ Within(Timeout)
    \/ Within(ServerChallenges)
    \/ Within(ServerAcceptsAgain)
    \/ Within(ReceiveSession)
    \/ Within(FragmentBegins)
    \/ Within(FragmentEnds)
    \/ Within(ReconnectAfterLoss)
    \/ Within(HeartbeatTick)

SpecRehandshake == InitRehandshake /\ [][NextRehandshake]_vars

\* The step handles stufftext "reconnect": the message arrives whole, in the
\* next packet or in the one after a lost fragment, or its last fragment
\* completes it
ReconnectHandled ==
    /\ rx'.op = "receive"
    /\ \/ rx'.buffer = SequencedDatagram(incomingSequence + 1, TRUE, 0, FALSE, ReconnectPayload)
       \/ /\ FragmentHeld
          /\ rx'.buffer \in
                 {SequencedDatagram(fragmentSequence + 1, TRUE, 0, FALSE, ReconnectPayload),
                  FragmentDatagram(fragmentSequence, TRUE, 0, FALSE, Len(FragmentHead), FALSE,
                                   FragmentRest)}

\* The flags and tables of the handshake are those of a client that has not
\* begun one
HandshakeFlagsCleared ==
    /\ ~hasSentNew' /\ ~hasSentBegin' /\ ~precacheReceived' /\ ~hasServerData'
    /\ ~awaitingBegin' /\ pendingCommands' = <<>>
    /\ currentMapName' = <<>> /\ configStrings' = <<>> /\ lastFrameNum' = -1

\* The client has left the connection it had
ConnectionLeft == ~isConnected' /\ connectionState' \notin {"connected", "spawned"}

HandshakeStateCleared == HandshakeFlagsCleared /\ ConnectionLeft

\* The counters are those of a fresh channel on which only the packets sent
\* after the reset have gone out
NetchanCountersCleared ==
    /\ incomingSequence' = 0 /\ incomingAcknowledged' = 0
    /\ incomingReliableSequence' = 0 /\ incomingReliableAcknowledged' = 0
    /\ reliableSequence' = 0 /\ lastReliableSequence' = 0
    /\ outgoingSequence' \in {1, 2}
    /\ \A i \in 1..Len(sent') :
           IsSequencedPacket(sent'[i]) /\ WireSequence(sent'[i]) = 1
               => outgoingSequence' = 2

\* No fragmented message is in reassembly
ReassemblyCleared == fragmentSequence' = 0 /\ fragmentBuffer' = <<>>

NetchanStateCleared == NetchanCountersCleared /\ ReassemblyCleared

RechallengeTimer == [fn |-> "requestChallenge", delay |-> 500, arg |-> NaN]

\* C29: a step that handles stufftext "reconnect", in whatever state it
\* arrives, announces "reconnecting", resets the handshake state (the flags
\* and tables of the handshake, and the connection the client had) and the
\* netchan state (the counters and the reassembly of a fragmented message)
\* and registers requestChallenge after 500 ms; the step in which that timer
\* fires sends getchallenge and enters "challenging"
C29_ReconnectResetsAndRechallenges ==
    [][/\ ReconnectHandled =>
              /\ didReset'
              /\ HandshakeStateCleared
              /\ NetchanStateCleared
              /\ Len(timeouts') = Len(timeouts) + 1
              /\ timeouts'[Len(timeouts')] = RechallengeTimer
              /\ \E i \in 1..Len(emitted') :
                     /\ emitted'[i].type = "connection"
                     /\ emitted'[i].data = [status |-> "reconnecting",
                                            reason |-> Lit_server_request]
       /\ (rx'.op = "timeout" /\ rx'.timer = RechallengeTimer) =>
              /\ GetChallengeSent(sent')
              /\ connectionState' = "challenging"]_vars

\* C29, the reset at work: the reconnect arrived after the first fragment of
\* a message on a connected client; the client has run resetConnectionState
\* and still holds that fragment for sequence 1, and is still connected
C29_ReassemblySurvivesReset ==
    /\ rx.op = "receive"
    /\ didReset
    /\ incomingSequence = 0
    /\ fragmentSequence = 1
    /\ fragmentBuffer = FragmentHead
    /\ isConnected

\* The handshake has completed a second time: server count 8 is the answer
\* to a "new" sent after the reset
C29_SpawnedAfterReconnect ==
    /\ connectionState = "spawned"
    /\ serverCount = 8
    /\ currentMapName = <<110>>
    /\ hasServerData /\ precacheReceived


(***************************************************************************)
(* Specification Rejected: the server refuses during the handshake         *)
(*                                                                         *)
(* While the client is between its challenge request and the spawn, the    *)
(* server may answer with an out-of-band "disconnect" or with an           *)
(* out-of-band "print" carrying the text of the refusal.                   *)
(***************************************************************************)
\* ff ff ff ff "print\nfull\n"
PrintDatagram == OOBDatagram(Lit_print \o <<10, 102, 117, 108, 108, 10>>)

InHandshake == connectionState \in {"challenging", "connecting", "connected"}

PrintArrives == InHandshake /\ Receive(PrintDatagram)

InitRejected == Drawn(Draws) /\ (\E maxAttempts \in MaxAttemptsChoices : Constructed(FALSE, FALSE, maxAttempts))

NextRejected ==
    \/ Within(UserConnects)
    \/ Within(Bind)
    \/ Within(Timeout)
    \/ Within(ChallengeArrives)
    \/ Within(ServerAccepts)
    \/ Within(DisconnectArrives)
    \/ Within(PrintArrives)

SpecRejected == InitRejected /\ [][NextRejected]_vars

\* What handleDisconnect does to the connection in this step
ReconnectPolicyApplied ==
    /\ connectionState' = "disconnected"
    /\ ~isConnected'
    /\ heartbeatInterval' = 0
    /\ IF reconnectAttempts < maxReconnectAttempts
       THEN ReconnectScheduled /\ HasConnectionEvent(emitted', "reconnecting")
       ELSE HasConnectionEvent(emitted', "disconnected")

\* An out-of-band "disconnect" during the handshake applies the policy
DisconnectAppliesPolicy ==
    [][(InHandshake /\ rx'.op = "receive" /\ rx'.buffer = DisconnectDatagram)
          => ReconnectPolicyApplied]_vars

\* C30: an out-of-band "print" received after the challenge request and
\* before the spawn is handled as a rejection of the handshake: the client
\* goes to "disconnected" and the reconnect policy runs as it does for an
\* out-of-band "disconnect"
C30_PrintRejectsHandshake ==
    [][(InHandshake /\ rx'.op = "receive" /\ rx'.buffer = PrintDatagram)
          => ReconnectPolicyApplied]_vars


(***************************************************************************)
(* Specification Delta: successive frames for one entity                   *)
(*                                                                         *)
(* A connected client receives the baseline of entity 5, frames that set   *)
(* its animation frame, move it along y or remove it, and frames followed  *)
(* by a print in the same payload, with the entities closed by one zero    *)
(* byte or by the zero bits and zero number of the wire format.            *)
(***************************************************************************)
\* Frame 1: entity 5 with frame = 7
FrameAnimate5 == SvcFrame(1, 0, <<>>, <<U_FRAME8, 5, 7, 0>>)

\* Frame 2: entity 5 with origin.y = 8/8
FrameMoveY5 == SvcFrame(2, 0, <<>>, <<U_ORIGIN2, 5, 8, 0, 0>>)

\* Frame 3: entity 5 with origin.x = 24/8, closed by zero bits and the
\* number 0
FrameMove5Closed == SvcFrame(3, 0, <<>>, <<U_ORIGIN1, 5, 24, 0, 0, 0>>)

DeltaPayloads ==
    {Baseline5, FrameAnimate5, FrameMoveY5, FrameRemove5,
     FrameMove5 \o PrintA, FrameMove5Closed \o PrintA}

InitDelta == Drawn(Draws) /\ (\E passive \in BOOLEAN : Constructed(passive, FALSE, 5))

ReceiveDelta ==
    /\ isConnected
    /\ incomingSequence <= MaxSeq
    /\ \E d \in DeltaPayloads :
          Receive(SequencedDatagram(incomingSequence + 1, TRUE, 0, FALSE, d))

NextDelta ==
    \/ Within(UserConnects)
    \/ Within(Bind)
    \/ Within(Timeout)
    \/ Within(ServerChallenges)
    \/ Within(ServerAccepts)
    \/ Within(ReceiveDelta)

SpecDelta == InitDelta /\ [][NextDelta]_vars

\* Entity 5 has a current state written by an earlier frame
HasCurrent5 ==
    /\ 5 \in DOMAIN entityTracker.entities
    /\ entityTracker.entities[5].active

\* C31: a delta for an entity that has a current state changes the selected
\* fields only: after the frame that selects origin.y of entity 5, every
\* other field of entities[5] has the value it had before the frame.
C31_DeltaOnCurrentState ==
    [][(HasCurrent5 /\ PayloadArrives(rx', FrameMoveY5))
          => entityTracker'.entities[5]
               = [entityTracker.entities[5] EXCEPT !.origin.y = Eighths(8)]]_vars


\* The print "a" of the payload is delivered in this step
PrintADelivered ==
    \E i \in 1..Len(emitted') :
        emitted'[i] = [type |-> "console_message", data |-> [level |-> "HIGH", text |-> <<97>>]]

\* With the entities closed by the zero bits alone the print is delivered
PrintAfterZeroBits ==
    [][PayloadArrives(rx', FrameMove5 \o PrintA) => PrintADelivered]_vars

\* C32: the decoder of the packet entities consumes the records and the
\* closing pair of zero bits and zero number, so a print that follows the
\* frame in the same payload is decoded and delivered.
C32_PrintAfterFrame ==
    [][PayloadArrives(rx', FrameMove5Closed \o PrintA)
          => /\ PrintADelivered
             /\ entityTracker'.entities[5].origin.x = Eighths(24)]_vars


\* C33: in every reachable state a spawned client is connected and has
\* received precache or skins since the connection state was last reset.
C33_SpawnedHasPrecache ==
    connectionState = "spawned" => (isConnected /\ precacheReceived)


\* C34: a step sends sequenced packets, heartbeats and acknowledgements
\* included, only when it leaves the client connected or spawned; between a
\* reconnect requested by the server and the next client_connect none is
\* sent.
C34_SequencedOnlyWhenConnected ==
    (\E i \in 1..Len(sent) : IsSequencedPacket(sent[i]))
        => connectionState \in {"connected", "spawned"}


(***************************************************************************)
(* Specification Leftover: timers that outlive their connection            *)
(*                                                                         *)
(* The moves of the specification Backoff, with every pending timer        *)
(* firing in the end: setTimeout callbacks are run by the event loop and   *)
(* nothing but cleanup() cancels them.                                     *)
(***************************************************************************)
SpecLeftover == InitBackoff /\ [][NextBackoff]_vars /\ WF_vars(Within(Timeout))

\* The state a step that accepted client_connect leaves
Accepted ==
    /\ rx.op = "receive"
    /\ rx.buffer = ClientConnectDatagram
    /\ isConnected

\* C35: after every accepted client_connect the reliable string command
\* "new" is transmitted, unless the connection is lost first.
C35_NewAfterClientConnect ==
    Accepted ~> (NewSent(sent, serverProtocol) \/ ~isConnected)


(***************************************************************************)
(* Specification MapChange: an active client through a change of level     *)
(*                                                                         *)
(* The server follows its script: server data of map "m", the commands     *)
(* stufftext, precache; when the client is spawned, server data of map "n" *)
(* (the map change); and, in answer to the client's "new", server data of  *)
(* map "n" again, the commands stufftext and precache.  Packet k of the     *)
(* script has the sequence number k.                                       *)
(***************************************************************************)
\* Sequenced packets the client may send during the script
MaxMapChangeOutgoing == 14

MapChangeScript ==
    <<ServerDataPayload, CommandsPayload, PrecachePayload(7),
      OtherMapPayload,
      OtherMapPayload, CommandsPayload, PrecachePayload(8)>>

\* The server sends its server data in answer to "new", and changes the map
\* under a spawned client
ScriptMayGoOn ==
    CASE incomingSequence \in {0, 4} -> hasSentNew
      [] incomingSequence = 3 -> connectionState = "spawned"
      [] OTHER -> TRUE

\* The script needs more sequenced packets than MaxOutgoing
BoundedInScript ==
    /\ outgoingSequence <= MaxMapChangeOutgoing + 1
    /\ Len(timeouts) <= MaxTimeouts

WithinScript(A) == A /\ BoundedInScript'

InitMapChange == Drawn(Draws) /\ Constructed(FALSE, FALSE, 5)

ReceiveScript ==
    /\ isConnected
    /\ incomingSequence < Len(MapChangeScript)
    /\ ScriptMayGoOn
    /\ \E a \in AckChoices :
          Receive(SequencedDatagram(incomingSequence + 1, TRUE, a[1], a[2],
                      MapChangeScript[incomingSequence + 1]))

NextMapChange ==
    \/ Within(UserConnects)
    \/ Within(Bind)
    \/ Within(ServerChallenges)
    \/ Within(ServerAccepts)
    \/ WithinScript(Timeout)
    \/ WithinScript(ReceiveScript)
    \/ WithinScript(HeartbeatTick)

SpecMapChange == InitMapChange /\ [][NextMapChange]_vars

\* The step receives packet k of the script
ScriptPacketArrives(k) ==
    /\ rx'.op = "receive"
    /\ incomingSequence = k - 1
    /\ incomingSequence' = k

BeginTimer == [fn |-> "sendBeginCommand", delay |-> 500, arg |-> NaN]

\* C36: after the map change the handshake completes again: the commands
\* stufftext of the new level is answered with the reliable commands
\* "configstrings 0" and "baselines 0", its precache registers the begin
\* timer, and that timer sends "begin 8".
C36_HandshakeAfterMapChange ==
    [][/\ ScriptPacketArrives(6)
             => StringCmdsSent(sent', serverProtocol')
                  = <<Lit_configstrings_sp \o <<48>>, Lit_baselines_sp \o <<48>>>>
       /\ ScriptPacketArrives(7)
             => \E i \in 1..Len(timeouts') : timeouts'[i] = BeginTimer
       /\ (rx'.op = "timeout" /\ rx'.timer = BeginTimer /\ serverCount = 8)
             => BeginsSent(sent', serverProtocol') = <<Lit_begin_sp \o <<56>>>>]_vars

\* In the first handshake the same stufftexts are answered
FirstHandshakeAnswered ==
    [][/\ ScriptPacketArrives(2)
             => StringCmdsSent(sent', serverProtocol')
                  = <<Lit_configstrings_sp \o <<48>>, Lit_baselines_sp \o <<48>>>>
       /\ ScriptPacketArrives(3)
             => \E i \in 1..Len(timeouts') : timeouts'[i] = BeginTimer
       /\ (rx'.op = "timeout" /\ rx'.timer = BeginTimer /\ serverCount = 7)
             => BeginsSent(sent', serverProtocol') = <<Lit_begin_sp \o <<55>>>>]_vars


\* The pending timers that will run requestChallenge
RechallengeTimers == SelectSeq(timeouts, LAMBDA timer : timer.fn = "requestChallenge")

\* C37: at most one deferred requestChallenge is pending at any time,
\* whatever disconnects and reconnect requests the server sends.
C37_OneRechallengePending == Len(RechallengeTimers) <= 1


\* C38: no deferred callback (connectToServer, requestChallenge,
\* sendNewCommand, sendBeginCommand) calls send on the socket that cleanup()
\* has closed and set to null: a timer step never ends in the TypeError of
\* this.socket.send on null.
C38_NoSendOnClosedSocket == ~(rx.op = "timeout" /\ threw)


\* C39: no tracked entity is both active and marked removed, whatever
\* baselines and deltas were applied; an entity removed and then updated
\* again is active and not marked removed.
C39_ActiveNotRemoved ==
    \A n \in DOMAIN entityTracker.entities :
        ~(entityTracker.entities[n].active /\ entityTracker.entities[n].removed)


(***************************************************************************)
(* Specification Intervals: the heartbeat and keep-alive intervals         *)
(*                                                                         *)
(* The server may answer with client_connect more than once, disconnect    *)
(* the client out of band or with stufftext "reconnect"; the user may call *)
(* disconnect() and connect() again.                                       *)
(***************************************************************************)
InitIntervals == Drawn(Draws) /\ (\E maxAttempts \in MaxAttemptsChoices : Constructed(FALSE, FALSE, maxAttempts))

AcceptsRepeatedly ==
    /\ connectionState \in {"connecting", "connected", "spawned"}
    /\ Receive(ClientConnectDatagram)

ReceiveSpawnOrReconnect ==
    /\ isConnected
    /\ incomingSequence < MaxSeq
    /\ \E d \in {SpawnPayload, ReconnectPayload} :
          Receive(SequencedDatagram(incomingSequence + 1, TRUE, 0, FALSE, d))

NextIntervals ==
    \/ Within(UserConnects)
    \/ Within(Bind)
    \/ Within(Timeout)
    \/ Within(ServerChallenges)
    \/ Within(AcceptsRepeatedly)
    \/ Within(ReceiveSpawnOrReconnect)
    \/ Within(DisconnectArrives)
    \/ Within(Disconnect)
    \/ Within(HeartbeatTick)

SpecIntervals == InitIntervals /\ [][NextIntervals]_vars

\* The handle field names the one interval that is live, or is null when
\* none is
OneIntervalPerHandle ==
    /\ liveIntervals.heartbeat = IF heartbeatInterval # 0 THEN 1 ELSE 0
    /\ liveIntervals.keepAlive = IF keepAliveInterval # 0 THEN 1 ELSE 0

\* The step ran handleDisconnect or cleanup()
DisconnectHandled ==
    \/ rx'.op = "disconnect"
    \/ rx'.op = "receive" /\ rx'.buffer = DisconnectDatagram

\* C40: at any time at most one heartbeat interval and one keep-alive
\* interval are live, the ones the handle fields name; a step that runs
\* handleDisconnect or cleanup leaves none live; and only a step that
\* receives client_connect starts an interval.
C40_OneIntervalEach ==
    [][/\ OneIntervalPerHandle'
       /\ DisconnectHandled
             => liveIntervals' = [heartbeat |-> 0, keepAlive |-> 0]
       /\ (liveIntervals.heartbeat = 0 /\ liveIntervals'.heartbeat > 0)
             => (rx'.op = "receive" /\ rx'.buffer = ClientConnectDatagram)
       /\ (liveIntervals.keepAlive = 0 /\ liveIntervals'.keepAlive > 0)
             => (rx'.op = "receive" /\ rx'.buffer = ClientConnectDatagram)]_vars

\* C40, witness: client_connect has arrived a second time before the "new"
\* timer of the first one fired, so startHeartbeat ran while both intervals
\* were live, and one interval of each kind is live
C40_RestartedWhileRunning ==
    /\ rx.op = "receive"
    /\ rx.buffer = ClientConnectDatagram
    /\ Len(timeouts) = 2
    /\ \A i \in 1..2 : timeouts[i].fn = "sendNewCommand"
    /\ liveIntervals = [heartbeat |-> 1, keepAlive |-> 1]

====
